---- MODULE Spec2Model ----
(***************************************************************************)
(* Model of the rig-rag service: the agent core (src/agent/rig_agent.rs),  *)
(* the chat session manager (src/web/chat_route.rs), the preamble route    *)
(* (src/web/preamble_routes.rs) and the durable conversation log           *)
(* (src/db/conversation_store.rs).                                         *)
(*                                                                         *)
(* Every request is a task of the multi-threaded runtime.  A step of the   *)
(* model is one access to shared state (a lock section, an atomic pointer  *)
(* operation, a file or database call) together with the task-local code   *)
(* that follows it up to the next access to shared state.                  *)
(***************************************************************************)
EXTENDS Integers, Sequences, FiniteSets, TLC

(* ------------------------------ bounds -------------------------------- *)
NumSlots == 2
MaxRequests == 3
MaxMutations == 2
MaxFrags == 1
ChatRequests == 2
ChatMutations == 1
LongRequests == 6
TalkRequests == 3
SseRequests == 1
MaxItems == 3
MaxSseFrags == 2
MaxDocRequests == 3
DocChats == 1
MaxConvs == 2
MaxTicks == 4
NumTasks == 2
MaxTaskRequests == 2
IngestRequests == 1
MaxTextLen == 4
ToolRequests == 2
MaxLimit == 2
MaxOffset == 3
MaxTableRows == 3
MaxUsers == 3
MaxBackupRequests == 3
ChunkRequests == 1
MaxUserRequests == 2
NumUserTasks == 2
OverlapRequests == 4
MaxCols == 2

(* ------------------------- program constants -------------------------- *)
COMPRESS_THRESHOLD == 5
MAX_HISTORY_MESSAGES == 10

Slots == 1..NumSlots

(* --------------------------- text helpers ----------------------------- *)
(* A text is a sequence of tokens; a token is one character, except the    *)
(* two literal prefixes the program formats into a text.                   *)
ErrorPrefix == "Error: "
SummaryPrefix == "[Summary] "

\* UTF-8 length of a token in bytes (str::len counts bytes)
ByteLen(c) ==
    CASE c = "zh" -> 3
      [] c = ErrorPrefix -> 7
      [] c = SummaryPrefix -> 15
      [] c = "<word of 7000 bytes>" -> 7000
      [] c \in {"---", "==="} -> 3
      [] OTHER -> 1

\* number of characters of a token
CharLen(c) ==
    CASE c = ErrorPrefix -> 7
      [] c = SummaryPrefix -> 7
      [] c = "<word of 7000 bytes>" -> 7000
      [] c \in {"---", "==="} -> 3
      [] OTHER -> 1

is_whitespace(c) == c \in {" ", "\n"}

is_ascii_punctuation(c) == c \in {"?", "!", "."}

RECURSIVE TrimStart(_)
TrimStart(t) ==
    IF t # <<>> /\ is_whitespace(Head(t)) THEN TrimStart(Tail(t)) ELSE t

RECURSIVE TrimEnd(_)
TrimEnd(t) ==
    IF t # <<>> /\ is_whitespace(t[Len(t)])
    THEN TrimEnd(SubSeq(t, 1, Len(t) - 1))
    ELSE t

trim(t) == TrimEnd(TrimStart(t))

RECURSIVE len(_)
len(t) == IF t = <<>> THEN 0 ELSE ByteLen(Head(t)) + len(Tail(t))

RECURSIVE chars_count(_)
chars_count(t) == IF t = <<>> THEN 0 ELSE CharLen(Head(t)) + chars_count(Tail(t))

\* the closure of is_meaningless_message
is_meaningless(text) ==
    LET trimmed == trim(text)
    IN  len(trimmed) < 2
        \/ \A i \in 1..Len(trimmed) : is_ascii_punctuation(trimmed[i])

is_meaningless_message(msg) == is_meaningless(msg.text)

filter_meaningless_messages(history) ==
    SelectSeq(history, LAMBDA msg : ~is_meaningless_message(msg))

\* Message::user / Message::assistant; rid names the request that made it
Message(role, text, rid) == [role |-> role, text |-> text, rid |-> rid]

\* Iterator::skip(n).collect()
skip(s, n) == SubSeq(s, n + 1, Len(s))

\* drain_excess with the cap forgotten
drain_nothing(history, max) == history

\* history.drain(0..excess) with excess = len.saturating_sub(max)
drain_excess(history, max) ==
    IF Len(history) > max THEN skip(history, Len(history) - max) ELSE history

(* ------------------------------ state --------------------------------- *)
VARIABLES
    preamble,        \* RigAgentContext.preamble
    needs_rebuild,   \* RigAgentContext.needs_rebuild
    preamble_file,   \* content of the preamble file
    agent,           \* RigAgent.agent: the atomic pointer (index into agents)
    agents,          \* every agent ever allocated
    freed,           \* agents released by Box::from_raw
    chat_store,      \* cache entry of the user: 0 or a history object
    histories,       \* the history objects (Arc<RwLock<Vec<Message>>>)
    conversations,   \* conversations table: status of each conversation
    messages,        \* conversation_messages table, in insertion order
    req,             \* the request tasks
    admin,           \* the update_preamble request in progress
    marksStarted,    \* number of times needs_rebuild was set
    marksDone,       \* number of mutation requests that have returned
    accepted,        \* content of the latest update_preamble that returned Ok
    started,         \* number of chat requests received
    table_exists,    \* the vector store's table has been created
    rows,            \* rows of the vector store's table, in insertion order
    backups,         \* ids that have a backup file
    doc,             \* the document request in progress
    generated,       \* number of ids nanoid has generated
    upstream,        \* items the upstream of a fragment stream has yet to deliver
    yielded,         \* fragments the fragment stream has yielded
    stream_state,    \* "open" until the fragment stream has ended
    locks,           \* the guards alive on RigAgent.context and on the user's history
    task,            \* the request tasks, statement by statement
    now,             \* chrono::Utc::now().timestamp(), in seconds
    updated_at,      \* conversations table: updated_at of each conversation
    users,           \* users table, in insertion order
    user_seq,        \* sqlite_sequence of the users table: the last id given
    user_task,       \* the user administration requests in progress
    backup_dir       \* names of the files in the backup directory

vars == <<preamble, needs_rebuild, preamble_file, agent, agents, freed,
          chat_store, histories, conversations, messages, req, admin,
          marksStarted, marksDone, accepted, started,
          table_exists, rows, backups, doc, generated,
          upstream, yielded, stream_state, locks, task, now, updated_at,
          users, user_seq, user_task, backup_dir>>

agentVars == <<preamble, needs_rebuild, preamble_file, agent, agents, freed>>
adminVars == <<admin, marksStarted, marksDone, accepted>>
histVars == <<chat_store, histories>>
dbVars == <<conversations, messages>>
docVars == <<table_exists, rows, backups, doc, generated>>
streamVars == <<upstream, yielded, stream_state>>
lockVars == <<locks, task>>
clockVars == <<now, updated_at>>
userVars == <<users, user_seq, user_task>>

IdleReq ==
    [pc |-> "idle", caller |-> "none", kind |-> "none", message |-> <<>>,
     rid |-> 0, chat_history |-> 0, history_snapshot |-> <<>>,
     loaded |-> "", new_agent |-> 0, agent_ptr |-> 0,
     full_response |-> <<>>, nfrag |-> 0, history_to_compress |-> <<>>,
     conversation |-> 0, connected |-> TRUE, errored |-> FALSE,
     startSeq |-> 0, startQuiet |-> FALSE, logAtStart |-> 0, convsAtStart |-> 0,
     no_id |-> FALSE, events |-> <<>>, outcome |-> "none"]

\* a document request that has not been received
IdleDoc ==
    [pc |-> "idle", op |-> "none", id |-> <<>>, content |-> <<>>,
     base_id |-> <<>>, documents |-> <<>>, delete_id |-> <<>>, backup_id |-> <<>>,
     before |-> <<>>, flag_before |-> FALSE, backups_before |-> {},
     results |-> <<>>, status |-> 0, seq |-> 0,
     limit |-> 0, offset |-> 0, total |-> 0, error |-> <<>>, table |-> <<>>,
     chunk_size |-> 0, i |-> 0,
     chunker |-> [chunks |-> <<>>, cur |-> <<>>, size |-> 0]]

\* the id of the default admin and the start of the id sequence
ADMIN_ID == 1001
SEQ_START == 1000

\* a user administration task that has not received a request
IdleUserTask == [pc |-> "idle", op |-> "none", id |-> 0, outcome |-> "none", served |-> 0]

\* a task that has not received a request
IdleTask == [op |-> "none", pc |-> 0, needs_rebuild |-> FALSE, agent_ptr |-> 0, served |-> 0]

\* a parking_lot::RwLock nobody holds
Unlocked == [readers |-> {}, writer |-> 0]

Init ==
    /\ users = << [id |-> ADMIN_ID, username |-> "admin", role |-> "admin", status |-> 1] >>
    /\ user_seq = ADMIN_ID
    /\ user_task = [t \in 1..NumUserTasks |-> IdleUserTask]
    /\ backup_dir = {}
    /\ now = 0
    /\ updated_at = <<>>
    /\ locks = [l \in {"context", "history"} |-> Unlocked]
    /\ task = [t \in 1..NumTasks |-> IdleTask]
    /\ preamble = "p0"
    /\ needs_rebuild = FALSE
    /\ preamble_file = "p0"
    /\ agents = << [preamble |-> "p0", compiledAt |-> 0, top_k |-> 1] >>
    /\ agent = 1
    /\ freed = {}
    /\ chat_store = 0
    /\ histories = <<>>
    /\ conversations = <<>>
    /\ messages = <<>>
    /\ req = [r \in Slots |-> IdleReq]
    /\ admin = [pc |-> "idle", content |-> ""]
    /\ marksStarted = 0
    /\ marksDone = 0
    /\ accepted = "p0"
    /\ started = 0
    /\ table_exists = FALSE
    /\ rows = <<>>
    /\ backups = {}
    /\ doc = IdleDoc
    /\ generated = 0
    /\ upstream = <<>>
    /\ yielded = <<>>
    /\ stream_state = "ended"

SetReq(r, rec) == req' = [req EXCEPT ![r] = rec]

Free(r) == req[r].pc \in {"idle", "done"}

\* the runtime's tasks are interchangeable: a new request takes the first
\* free one
FirstFree(r) == Free(r) /\ \A q \in 1..(r - 1) : ~Free(q)

\* what a finished task leaves behind: its verdict and the ghost fields
Finished(rec, outcome) ==
    [IdleReq EXCEPT !.pc = "done",
                    !.caller = IF rec.caller = "compress_history"
                               THEN "handle_stream_chat" ELSE rec.caller,
                    !.rid = rec.rid, !.connected = rec.connected,
                    !.startSeq = rec.startSeq, !.startQuiet = rec.startQuiet,
                    !.no_id = rec.no_id, !.events = rec.events,
                    !.outcome = outcome]

(* ------------------------- server-sent events ------------------------- *)
\* Event::default().data(..), and .event("user_id") for the named one
Event(name, data) == [event |-> name, data |-> data]

\* str::replace("\n", "[LF]")
replace_LF(chunk) ==
    [i \in DOMAIN chunk |-> IF chunk[i] = "\n" THEN "[LF]" ELSE chunk[i]]

\* the events on the channel before the first fragment: the user_id event of
\* a request that carried no user_id
Opened(rec) ==
    IF rec.no_id /\ rec.events = <<>>
    THEN << Event("user_id", <<"<generated user id>">>) >>
    ELSE rec.events

(* --------------------------- agent core ------------------------------- *)
\* load_preamble: the file content
load_preamble == preamble_file

\* where a task continues once it holds the agent reference: chat awaits the
\* completion, stream_chat returns the lazy stream
AfterDeref(rec) == IF rec.kind = "stream" THEN "streaming" ELSE "completion"

\* RigAgent::chat / stream_chat up to the first await: read needs_rebuild,
\* then either enter rebuild_with_sync (load the preamble file) or load the
\* agent pointer
EnterAgent(rec) ==
    IF needs_rebuild
    THEN [rec EXCEPT !.pc = "rebuild_store", !.loaded = load_preamble]
    ELSE [rec EXCEPT !.pc = AfterDeref(rec), !.agent_ptr = agent]

\* a task calls RigAgent::chat or RigAgent::stream_chat
Call(r, kinds, maxReq) ==
    /\ FirstFree(r)
    /\ started < maxReq
    /\ \E k \in kinds :
         SetReq(r, EnterAgent([IdleReq EXCEPT
                !.caller = "task", !.kind = k, !.rid = started + 1,
                !.startSeq = marksDone,
                !.startQuiet = (marksStarted = marksDone)]))
    /\ started' = started + 1
    /\ UNCHANGED <<backup_dir, userVars, clockVars, lockVars, docVars, streamVars, agentVars, adminVars, histVars, dbVars>>

\* rebuild_with_sync: self.context.write().preamble = preamble
RebuildStore(r) ==
    /\ req[r].pc = "rebuild_store"
    /\ preamble' = req[r].loaded
    /\ SetReq(r, [req[r] EXCEPT !.pc = "build", !.loaded = ""])
    /\ UNCHANGED <<backup_dir, userVars, clockVars, lockVars, docVars, streamVars, needs_rebuild, preamble_file, agent, agents, freed,
                   adminVars, histVars, dbVars, started>>

\* DocumentStore::create_vector_index: the second component of its result,
\* the number of points the collection holds
collection_count == Len(rows)

\* RigAgentContext::build_with_vector_index: top_k.max(1), then the agent
\* is compiled from the context as it is now
build_with_vector_index(top_k) ==
    [preamble |-> preamble, compiledAt |-> marksDone,
     top_k |-> IF top_k > 1 THEN top_k ELSE 1]

\* build_agent: create_vector_index succeeded and its count is handed to
\* build_with_vector_index as top_k
BuildOk(r) ==
    /\ req[r].pc = "build"
    /\ agents' = Append(agents, build_with_vector_index(collection_count))
    /\ SetReq(r, [req[r] EXCEPT !.pc = "swap", !.new_agent = Len(agents) + 1])
    /\ UNCHANGED <<backup_dir, userVars, clockVars, lockVars, docVars, streamVars, preamble, needs_rebuild, preamble_file, agent, freed,
                   adminVars, histVars, dbVars, started>>

\* the agent call is over: its arguments and the agent reference are dropped
Returned(rec) ==
    [rec EXCEPT !.history_snapshot = <<>>, !.history_to_compress = <<>>,
                !.agent_ptr = 0]

\* compress_history's Err arm: skip(history_len - max_messages), stored by
\* auto_compress_history
CompressFallback(rec) ==
    skip(rec.history_to_compress,
         Len(rec.history_to_compress) - COMPRESS_THRESHOLD)

\* the Err(e) arm of the caller of agent.chat / agent.stream_chat
AgentErr(r, outcome) ==
    IF req[r].caller = "compress_history"
    THEN /\ histories' = [histories EXCEPT ![req[r].chat_history] = CompressFallback(req[r])]
         /\ SetReq(r, [Returned(req[r]) EXCEPT !.pc = "db_get"])
         /\ UNCHANGED chat_store
    ELSE /\ SetReq(r, Finished(
                IF req[r].caller = "handle_stream_chat"
                THEN [req[r] EXCEPT !.events =
                        Append(@, Event("message", <<ErrorPrefix, "e">>))]
                ELSE req[r], outcome))
         /\ UNCHANGED histVars

\* BuildFail with the flag cleared before the build is known to succeed
BuildFail_ClearsFlag(r) ==
    /\ req[r].pc = "build"
    /\ AgentErr(r, "rebuild_failed")
    /\ needs_rebuild' = FALSE
    /\ UNCHANGED <<backup_dir, userVars, clockVars, lockVars, docVars, streamVars, preamble, preamble_file, agent, agents, freed,
                   adminVars, dbVars, started>>

\* build_agent: create_vector_index failed, `?` returns the error
BuildFail(r) ==
    /\ req[r].pc = "build"
    /\ AgentErr(r, "rebuild_failed")
    /\ UNCHANGED <<backup_dir, userVars, clockVars, lockVars, docVars, streamVars, agentVars, adminVars, dbVars, started>>

\* self.agent.swap(new) and Box::from_raw(old)
Swap(r) ==
    /\ req[r].pc = "swap"
    /\ agent' = req[r].new_agent
    /\ freed' = freed \cup {agent}
    /\ SetReq(r, [req[r] EXCEPT !.pc = "clear", !.new_agent = 0])
    /\ UNCHANGED <<backup_dir, userVars, clockVars, lockVars, docVars, streamVars, preamble, needs_rebuild, preamble_file, agents,
                   adminVars, histVars, dbVars, started>>

\* self.context.write().needs_rebuild = false, then back in chat /
\* stream_chat: self.agent.load()
Clear(r) ==
    /\ req[r].pc = "clear"
    /\ needs_rebuild' = FALSE
    /\ SetReq(r, [req[r] EXCEPT !.pc = AfterDeref(req[r]), !.agent_ptr = agent])
    /\ UNCHANGED <<backup_dir, userVars, clockVars, lockVars, docVars, streamVars, preamble, preamble_file, agent, agents, freed,
                   adminVars, histVars, dbVars, started>>

\* agent.chat(message, history).await returned Err
ChatErr(r) ==
    /\ req[r].pc = "completion"
    /\ AgentErr(r, "chat_error")
    /\ UNCHANGED <<backup_dir, userVars, clockVars, lockVars, docVars, streamVars, agentVars, adminVars, dbVars, started>>

\* RigAgent::chat returns Ok(response) to the calling task
TaskChatOk(r) ==
    /\ req[r].pc = "completion"
    /\ req[r].caller = "task"
    /\ SetReq(r, Finished(req[r], "ok"))
    /\ UNCHANGED <<backup_dir, userVars, clockVars, lockVars, docVars, streamVars, agentVars, adminVars, histVars, dbVars, started>>

\* the calling task has read the stream of RigAgent::stream_chat to its end
TaskStreamDone(r) ==
    /\ req[r].pc = "streaming"
    /\ req[r].caller = "task"
    /\ SetReq(r, Finished(req[r], "ok"))
    /\ UNCHANGED <<backup_dir, userVars, clockVars, lockVars, docVars, streamVars, agentVars, adminVars, histVars, dbVars, started>>

(* ------------------------ chat session manager ------------------------ *)
\* handle_chat / handle_stream_chat receive a request; with tagged, the turns
\* of the request carry its number (a ghost field that tells requests apart)
Start(r, texts, kinds, maxReq, tagged, noIds) ==
    /\ FirstFree(r)
    /\ started < maxReq
    /\ \E k \in kinds, m \in texts, n \in noIds :
         SetReq(r, [IdleReq EXCEPT
                !.pc = "get", !.kind = k,
                !.caller = IF k = "stream" THEN "handle_stream_chat" ELSE "handle_chat",
                !.message = trim(m), !.no_id = (n /\ k = "stream"),
                !.rid = IF tagged THEN started + 1 ELSE 0,
                !.startSeq = marksDone,
                !.startQuiet = (marksStarted = marksDone),
                !.logAtStart = IF tagged THEN Len(messages) ELSE 0,
                !.convsAtStart = IF tagged THEN Len(conversations) ELSE 0])
    /\ started' = started + 1
    /\ UNCHANGED <<backup_dir, userVars, clockVars, lockVars, docVars, streamVars, agentVars, adminVars, histVars, dbVars>>

\* the history handed to the agent: handle_stream_chat filters, handle_chat
\* clones the history as it is
Snapshot(caller, history) ==
    IF caller = "handle_stream_chat"
    THEN filter_meaningless_messages(history)
    ELSE history

\* chat_store().get(&user_id): on a hit, snapshot the history and call the agent
CacheGet(r) ==
    /\ req[r].pc = "get"
    /\ IF chat_store # 0
       THEN SetReq(r, EnterAgent([req[r] EXCEPT
                !.chat_history = chat_store,
                !.history_snapshot = Snapshot(req[r].caller, histories[chat_store])]))
       ELSE SetReq(r, [req[r] EXCEPT !.pc = "insert"])
    /\ UNCHANGED <<backup_dir, userVars, clockVars, lockVars, docVars, streamVars, agentVars, adminVars, histVars, dbVars, started>>

\* chat_store().insert(user_id, h) with a new empty history
CacheInsert(r) ==
    /\ req[r].pc = "insert"
    /\ histories' = Append(histories, <<>>)
    /\ chat_store' = Len(histories) + 1
    /\ SetReq(r, EnterAgent([req[r] EXCEPT
            !.chat_history = Len(histories) + 1,
            !.history_snapshot = <<>>]))
    /\ UNCHANGED <<backup_dir, userVars, clockVars, lockVars, docVars, streamVars, agentVars, adminVars, dbVars, started>>

\* handle_chat, Ok(response): push both turns, cap the history
ChatOk(r, resps) ==
    /\ req[r].pc = "completion"
    /\ req[r].caller = "handle_chat"
    /\ \E response \in resps :
        LET h == req[r].chat_history
            pushed == histories[h] \o << Message("user", req[r].message, req[r].rid),
                                         Message("assistant", response, req[r].rid) >>
        IN  /\ histories' = [histories EXCEPT ![h] = drain_excess(pushed, MAX_HISTORY_MESSAGES)]
            /\ SetReq(r, [Returned(req[r]) EXCEPT !.pc = "db_get", !.full_response = response])
    /\ UNCHANGED <<backup_dir, userVars, clockVars, lockVars, docVars, streamVars, agentVars, adminVars, chat_store, dbVars, started>>

\* compress_history, Ok(s): auto_compress_history stores the summary as the
\* whole history
SummaryOk(r, summaries) ==
    /\ req[r].pc = "completion"
    /\ req[r].caller = "compress_history"
    /\ \E summary \in summaries :
        histories' = [histories EXCEPT ![req[r].chat_history] =
                        << Message("user", <<SummaryPrefix>> \o summary, req[r].rid) >>]
    /\ SetReq(r, [Returned(req[r]) EXCEPT !.pc = "db_get"])
    /\ UNCHANGED <<backup_dir, userVars, clockVars, lockVars, docVars, streamVars, agentVars, adminVars, chat_store, dbVars, started>>

\* the stream yields a text fragment; the handler appends it to full_response
\* and sends it on the channel
StreamText(r, fragments, maxFrags) ==
    /\ req[r].pc = "streaming"
    /\ req[r].caller = "handle_stream_chat"
    /\ req[r].nfrag < maxFrags
    /\ \E text \in fragments :
         SetReq(r, [req[r] EXCEPT !.full_response = @ \o text, !.nfrag = @ + 1,
                !.events = Append(Opened(req[r]), Event("message", replace_LF(text)))])
    /\ UNCHANGED <<backup_dir, userVars, clockVars, lockVars, docVars, streamVars, agentVars, adminVars, histVars, dbVars, started>>

\* the receiving side of the channel is dropped; tx.send fails from now on
\* and the task ignores it (`let _ = tx.send(..)`)
Disconnect(r) ==
    /\ req[r].pc = "streaming"
    /\ req[r].caller = "handle_stream_chat"
    /\ req[r].connected
    /\ SetReq(r, [req[r] EXCEPT !.connected = FALSE])
    /\ UNCHANGED <<backup_dir, userVars, clockVars, lockVars, docVars, streamVars, agentVars, adminVars, histVars, dbVars, started>>

\* after the loop: send [DONE], push both turns, clone the history, and call
\* auto_compress_history when it is longer than COMPRESS_THRESHOLD
AfterStream(r, full, errored) ==
    LET h == req[r].chat_history
        pushed == histories[h] \o << Message("user", req[r].message, req[r].rid),
                                     Message("assistant", full, req[r].rid) >>
        sent == IF errored
                THEN Append(Opened(req[r]), Event("message", <<ErrorPrefix, "e">>))
                ELSE Opened(req[r])
        rec == [Returned(req[r]) EXCEPT !.full_response = full, !.errored = errored,
                                        !.nfrag = 0,
                                        !.events = Append(sent, Event("message", <<"[DONE]">>))]
    IN  /\ histories' = [histories EXCEPT ![h] = pushed]
        /\ IF Len(pushed) > COMPRESS_THRESHOLD
           THEN SetReq(r, EnterAgent([rec EXCEPT !.caller = "compress_history",
                                                 !.kind = "chat",
                                                 !.history_to_compress = pushed]))
           ELSE SetReq(r, [rec EXCEPT !.pc = "db_get"])

\* the upstream ends
StreamEnd(r) ==
    /\ req[r].pc = "streaming"
    /\ req[r].caller = "handle_stream_chat"
    /\ AfterStream(r, req[r].full_response, FALSE)
    /\ UNCHANGED <<backup_dir, userVars, clockVars, lockVars, docVars, streamVars, agentVars, adminVars, chat_store, dbVars, started>>

\* the upstream fails: the stream yields "Error: {e}" and breaks; the
\* handler treats the fragment like any other
StreamError(r) ==
    /\ req[r].pc = "streaming"
    /\ req[r].caller = "handle_stream_chat"
    /\ AfterStream(r, req[r].full_response \o <<ErrorPrefix, "e">>, TRUE)
    /\ UNCHANGED <<backup_dir, userVars, clockVars, lockVars, docVars, streamVars, agentVars, adminVars, chat_store, dbVars, started>>

(* ---------------------------- durable log ----------------------------- *)
EndWords == { <<"b", "y", "e">> }

Contains(text, word) ==
    \E i \in 1..(Len(text) - Len(word) + 1) :
        SubSeq(text, i, i + Len(word) - 1) = word

\* str::to_lowercase on the letters A-Z; every other character used here is
\* its own lower case
Uppercase == <<"A", "B", "C", "D", "E", "F", "G", "H", "I", "J", "K", "L", "M",
               "N", "O", "P", "Q", "R", "S", "T", "U", "V", "W", "X", "Y", "Z">>
Lowercase == <<"a", "b", "c", "d", "e", "f", "g", "h", "i", "j", "k", "l", "m",
               "n", "o", "p", "q", "r", "s", "t", "u", "v", "w", "x", "y", "z">>
to_lowercase(text) ==
    [i \in DOMAIN text |->
        IF \E k \in DOMAIN Uppercase : Uppercase[k] = text[i]
        THEN Lowercase[CHOOSE k \in DOMAIN Uppercase : Uppercase[k] = text[i]]
        ELSE text[i]]

detect_conversation_end_indicators(message) ==
    LET msg == to_lowercase(message)
    IN  \E word \in EndWords : Contains(msg, word)

ActiveConversations == { c \in 1..Len(conversations) : conversations[c] = "active" }

\* get_or_create_active_conversation: the SELECT (newest active conversation)
DbGet(r) ==
    /\ req[r].pc = "db_get"
    /\ IF ActiveConversations # {}
       THEN SetReq(r, [req[r] EXCEPT !.pc = "db_user",
                          !.conversation = CHOOSE c \in ActiveConversations :
                                              \A d \in ActiveConversations : d <= c])
       ELSE SetReq(r, [req[r] EXCEPT !.pc = "db_create"])
    /\ UNCHANGED <<backup_dir, userVars, clockVars, lockVars, docVars, streamVars, agentVars, adminVars, histVars, dbVars, started>>

\* get_or_create_active_conversation: create_conversation
DbCreate(r) ==
    /\ req[r].pc = "db_create"
    /\ conversations' = Append(conversations, "active")
    /\ SetReq(r, [req[r] EXCEPT !.pc = "db_user", !.conversation = Len(conversations) + 1])
    /\ UNCHANGED <<backup_dir, userVars, clockVars, lockVars, docVars, streamVars, agentVars, adminVars, histVars, messages, started>>

\* add_message(user_message_req)
DbUser(r) ==
    /\ req[r].pc = "db_user"
    /\ messages' = Append(messages, [conversation |-> req[r].conversation,
                                     role |-> "user", rid |-> req[r].rid])
    /\ SetReq(r, [req[r] EXCEPT !.pc =
            IF detect_conversation_end_indicators(req[r].message)
            THEN "db_close" ELSE "db_asst"])
    /\ UNCHANGED <<backup_dir, userVars, clockVars, lockVars, docVars, streamVars, agentVars, adminVars, histVars, conversations, started>>

\* smart_close_conversation_if_needed: update_conversation(status = closed)
DbClose(r) ==
    /\ req[r].pc = "db_close"
    /\ conversations' = [conversations EXCEPT ![req[r].conversation] = "closed"]
    /\ SetReq(r, [req[r] EXCEPT !.pc = "db_asst"])
    /\ UNCHANGED <<backup_dir, userVars, clockVars, lockVars, docVars, streamVars, agentVars, adminVars, histVars, messages, started>>

\* add_message(assistant_message_req); the handler returns
DbAsst(r) ==
    /\ req[r].pc = "db_asst"
    /\ messages' = Append(messages, [conversation |-> req[r].conversation,
                                     role |-> "assistant", rid |-> req[r].rid])
    /\ SetReq(r, Finished(req[r], IF req[r].errored THEN "stream_error" ELSE "ok"))
    /\ UNCHANGED <<backup_dir, userVars, clockVars, lockVars, docVars, streamVars, agentVars, adminVars, histVars, conversations, started>>

\* save_messages_to_db taken as one step, for the properties that do not read
\* the log: it reads and writes the conversation store only
save_messages_to_db(r) ==
    /\ req[r].pc = "db_get"
    /\ LET found == ActiveConversations # {}
           c == IF found
                THEN CHOOSE a \in ActiveConversations : \A d \in ActiveConversations : d <= a
                ELSE Len(conversations) + 1
           convs == IF found THEN conversations ELSE Append(conversations, "active")
       IN  /\ conversations' =
                IF detect_conversation_end_indicators(req[r].message)
                THEN [convs EXCEPT ![c] = "closed"] ELSE convs
           /\ messages' = messages \o
                << [conversation |-> c, role |-> "user", rid |-> req[r].rid],
                   [conversation |-> c, role |-> "assistant", rid |-> req[r].rid] >>
    /\ SetReq(r, Finished(req[r], IF req[r].errored THEN "stream_error" ELSE "ok"))
    /\ UNCHANGED <<backup_dir, userVars, clockVars, lockVars, docVars, streamVars, agentVars, adminVars, histVars, started>>

(* ----------------------------- mutations ------------------------------ *)
\* a document route: agent.set_needs_rebuild(true)
set_needs_rebuild(maxMut) ==
    /\ marksStarted < maxMut
    /\ needs_rebuild' = TRUE
    /\ marksStarted' = marksStarted + 1
    /\ marksDone' = marksDone + 1
    /\ UNCHANGED <<backup_dir, userVars, clockVars, lockVars, docVars, streamVars, preamble, preamble_file, agent, agents, freed, admin, accepted,
                   histVars, dbVars, req, started>>

\* update_preamble: the context write section
update_preamble(contents, maxMut) ==
    /\ admin.pc = "idle"
    /\ marksStarted < maxMut
    /\ \E content \in contents :
        /\ preamble' = content
        /\ admin' = [pc |-> "save", content |-> content]
    /\ needs_rebuild' = TRUE
    /\ marksStarted' = marksStarted + 1
    /\ UNCHANGED <<backup_dir, userVars, clockVars, lockVars, docVars, streamVars, preamble_file, agent, agents, freed, marksDone, accepted,
                   histVars, dbVars, req, started>>

\* update_preamble: save_preamble_to_file succeeded, the route returns Ok
SavePreambleOk ==
    /\ admin.pc = "save"
    /\ preamble_file' = admin.content
    /\ accepted' = admin.content
    /\ admin' = [pc |-> "idle", content |-> ""]
    /\ marksDone' = marksDone + 1
    /\ UNCHANGED <<backup_dir, userVars, clockVars, lockVars, docVars, streamVars, preamble, needs_rebuild, agent, agents, freed, marksStarted,
                   histVars, dbVars, req, started>>

SavePreambleFail_ClearsFlag ==
    /\ admin.pc = "save"
    /\ admin' = [pc |-> "idle", content |-> ""]
    /\ marksDone' = marksDone + 1
    /\ needs_rebuild' = FALSE
    /\ UNCHANGED <<backup_dir, userVars, clockVars, lockVars, docVars, streamVars, preamble, preamble_file, agent,
                   agents, freed, marksStarted, accepted, histVars, dbVars, req, started>>

\* update_preamble: save_preamble_to_file failed, the route returns 500
SavePreambleFail ==
    /\ admin.pc = "save"
    /\ admin' = [pc |-> "idle", content |-> ""]
    /\ marksDone' = marksDone + 1
    /\ UNCHANGED <<backup_dir, userVars, clockVars, lockVars, docVars, streamVars, agentVars, marksStarted, accepted, histVars, dbVars, req, started>>

(* --------------------------- document chunker ------------------------- *)
\* a word of 7000 bytes without whitespace, punctuation, '|' or '#'
BigWord == "<word of 7000 bytes>"

\* str::split(pattern): the pieces between separators, the last one included
RECURSIVE SplitOn(_, _, _, _)
SplitOn(t, seps, piece, acc) ==
    IF t = <<>> THEN Append(acc, piece)
    ELSE IF Head(t) \in seps THEN SplitOn(Tail(t), seps, <<>>, Append(acc, piece))
    ELSE SplitOn(Tail(t), seps, Append(piece, Head(t)), acc)

\* str::lines(): split on line feeds; a final empty line is not a line
lines(text) ==
    LET pieces == SplitOn(text, {"\n"}, <<>>, <<>>)
    IN  IF pieces[Len(pieces)] = <<>> THEN SubSeq(pieces, 1, Len(pieces) - 1) ELSE pieces

\* [&str]::join(sep)
RECURSIVE join(_, _)
join(ls, sep) ==
    IF ls = <<>> THEN <<>>
    ELSE IF Len(ls) = 1 THEN ls[1]
    ELSE ls[1] \o sep \o join(Tail(ls), sep)

\* line.contains("|")
HasPipe(line) == \E k \in 1..Len(line) : line[k] = "|"

\* is_table_start(lines, index); lines are numbered from 1 here
is_table_start(ls, index) ==
    /\ index <= Len(ls)
    /\ HasPipe(trim(ls[index]))
    /\ \/ \E k \in 1..Len(ls[index]) : ls[index][k] \in {"---", "==="}
       \/ index + 1 <= Len(ls) /\ HasPipe(trim(ls[index + 1]))
       \/ index > 1 /\ HasPipe(trim(ls[index - 1]))

\* collect_table: walk back to the first line of the table
RECURSIVE TableTop(_, _)
TableTop(ls, i) ==
    IF i > 1 /\ HasPipe(trim(ls[i - 1])) THEN TableTop(ls, i - 1) ELSE i

\* collect_table: gather the table's lines; the result is the lines and the
\* index where the loop stopped
RECURSIVE TableRows(_, _, _)
TableRows(ls, i, acc) ==
    IF i > Len(ls) THEN [table_lines |-> acc, stop |-> i]
    ELSE IF trim(ls[i]) = <<>>
         THEN IF i + 1 <= Len(ls) /\ HasPipe(trim(ls[i + 1]))
              THEN TableRows(ls, i + 1, acc)
              ELSE [table_lines |-> acc, stop |-> i]
    ELSE IF HasPipe(trim(ls[i])) THEN TableRows(ls, i + 1, Append(acc, ls[i]))
    ELSE [table_lines |-> acc, stop |-> i]

\* collect_table(lines, start): (table_text, table_end); with lines numbered
\* from 1, i.saturating_sub(1) is the line before the stop, at least line 1
collect_table(ls, start) ==
    LET got == TableRows(ls, TableTop(ls, start), <<>>)
    IN  [table_text |-> join(got.table_lines, <<"\n">>),
         table_end |-> IF got.stop - 1 < 1 THEN 1 ELSE got.stop - 1]

\* split_large_table, header larger than a chunk: cut line by line
RECURSIVE HardCut(_, _, _, _, _)
HardCutLine(ls, idx, current, chunks, chunk_size) ==
    IF idx > Len(ls)
    THEN IF current # <<>> THEN Append(chunks, trim(current)) ELSE chunks
    ELSE LET line_with_newline == IF idx = Len(ls) THEN ls[idx] ELSE ls[idx] \o <<"\n">>
             full == len(current) + len(line_with_newline) > chunk_size /\ current # <<>>
         IN  HardCut(ls, idx + 1,
                     (IF full THEN <<>> ELSE current) \o line_with_newline,
                     IF full THEN Append(chunks, trim(current)) ELSE chunks,
                     chunk_size)

\* split_large_table: the hard cut line by line; the loop variables are
\* values, computed once for each line
HardCut(ls, idx, current, chunks, chunk_size) ==
    CHOOSE out \in { HardCutLine(ls, idx, v[1], v[2], chunk_size) :
                         v \in { <<current, chunks>> } } : TRUE

\* split_large_table, the rows after the header: every chunk starts with it
RECURSIVE SplitRows(_, _, _, _, _, _, _)
SplitRow(ls, idx, header_text, current_chunk, current_size, chunks, chunk_size) ==
    LET header_size == len(header_text) + 1
    IN  IF idx > Len(ls)
        THEN IF len(current_chunk) > header_size THEN Append(chunks, current_chunk) ELSE chunks
        ELSE LET row_with_newline == <<"\n">> \o ls[idx]
                 row_size == len(row_with_newline)
             IN  IF current_size + row_size > chunk_size
                 THEN SplitRows(ls, idx + 1, header_text, header_text \o row_with_newline,
                                header_size + row_size, Append(chunks, current_chunk), chunk_size)
                 ELSE SplitRows(ls, idx + 1, header_text, current_chunk \o row_with_newline,
                                current_size + row_size, chunks, chunk_size)

\* the loop over the rows; the loop variables are values, computed once for
\* each row
SplitRows(ls, idx, header_text, current_chunk, current_size, chunks, chunk_size) ==
    CHOOSE out \in { SplitRow(ls, idx, header_text, v[1], v[2], v[3], chunk_size) :
                         v \in { <<current_chunk, current_size, chunks>> } } : TRUE

split_large_table(table_text, chunk_size) ==
    LET ls == lines(table_text)
        header_text == join(SubSeq(ls, 1, 2), <<"\n">>)
        header_size == len(header_text) + 1
    IN  IF Len(ls) <= 2 THEN << table_text >>
        ELSE IF header_size >= chunk_size THEN HardCut(ls, 1, <<>>, <<>>, chunk_size)
        ELSE LET chunks == SplitRows(ls, 3, header_text, header_text, header_size, <<>>, chunk_size)
             IN  IF chunks = <<>> THEN << table_text >> ELSE chunks

\* chunks.push(current_chunk.trim().to_string()) and a fresh current chunk
Flush(st) == [chunks |-> Append(st.chunks, trim(st.cur)), cur |-> <<>>, size |-> 0]

\* "skip the empty lines": the first line from i on that is not empty
RECURSIVE SkipEmpty(_, _)
SkipEmpty(ls, i) ==
    IF i <= Len(ls) /\ trim(ls[i]) = <<>> THEN SkipEmpty(ls, i + 1) ELSE i

\* the nearest line before i that is not empty, trimmed, if it is a Markdown
\* title; the empty text if there is none
TitleBefore(ls, i) ==
    LET before == { j \in 1..(i - 1) : trim(ls[j]) # <<>> }
    IN  IF before = {} THEN <<>>
        ELSE LET j == CHOOSE k \in before : \A m \in before : m <= k
             IN  IF Head(trim(ls[j])) = "#" THEN trim(ls[j]) ELSE <<>>

\* a title line whose next line that is not empty starts a table
has_table_after(ls, i) ==
    LET after == { j \in (i + 1)..Len(ls) : trim(ls[j]) # <<>> }
    IN  /\ after # {}
        /\ is_table_start(ls, CHOOSE k \in after : \A m \in after : k <= m)

\* the first line after the paragraph that starts at line i
RECURSIVE ParagraphEnd(_, _)
ParagraphEnd(ls, k) ==
    IF k <= Len(ls) /\ trim(ls[k]) # <<>> /\ ~is_table_start(ls, k)
    THEN ParagraphEnd(ls, k + 1) ELSE k

\* ['.', '。', '!', '?', '！', '？']: the three wide marks are written by code point
SentenceEnds == {".", "<U+3002>", "!", "?", "<U+FF01>", "<U+FF1F>"}

\* a paragraph larger than a chunk, sentence by sentence
RECURSIVE AddSentences(_, _, _)
AddSentence(sentences, st, chunk_size) ==
    IF sentences = <<>> THEN st
    ELSE LET sentence == trim(Head(sentences))
             sentence_with_punct == sentence \o <<".", " ">>
             st1 == IF st.size + len(sentence_with_punct) > chunk_size /\ st.size > 0
                    THEN Flush(st) ELSE st
         IN  IF sentence = <<>> THEN AddSentences(Tail(sentences), st, chunk_size)
             ELSE AddSentences(Tail(sentences),
                               [st1 EXCEPT !.cur = @ \o sentence_with_punct,
                                           !.size = @ + len(sentence_with_punct)],
                               chunk_size)

\* the loop over the sentences; the chunker's state is a value, computed once
\* for each sentence
AddSentences(sentences, st, chunk_size) ==
    CHOOSE out \in { AddSentence(v[1], v[2], chunk_size) :
                         v \in { <<sentences, st>> } } : TRUE

\* a title line goes in front of every chunk of a table that was split
WithTitle(title_line, table_chunks) ==
    [k \in 1..Len(table_chunks) |-> title_line \o table_chunks[k]]

\* chunk_document, a table: the table goes to the current chunk, or is split
\* when it is larger than a chunk
PlaceTable(st, title_line, table_text, total_size, chunk_size) ==
    IF total_size > chunk_size
    THEN [chunks |-> (IF trim(st.cur) # <<>> THEN Append(st.chunks, trim(st.cur))
                      ELSE st.chunks)
                     \o WithTitle(title_line, split_large_table(table_text, chunk_size)),
          cur |-> IF trim(st.cur) # <<>> THEN <<>> ELSE st.cur,
          size |-> IF trim(st.cur) # <<>> THEN 0 ELSE st.size]
    ELSE [st EXCEPT !.cur = @ \o title_line \o table_text \o <<"\n", "\n">>,
                    !.size = @ + total_size]

\* chunk_document, a table: the current chunk is saved first when the table
\* would overflow it
FitTable(st, title_line, table_text, total_size, chunk_size) ==
    PlaceTable(IF st.size + total_size > chunk_size /\ st.size > 0
               THEN IF trim(st.cur) # <<>> THEN Flush(st)
                    ELSE [st EXCEPT !.cur = <<>>, !.size = 0]
               ELSE st,
               title_line, table_text, total_size, chunk_size)

\* chunk_document, a table under a title the current chunk does not hold yet:
\* the current chunk is saved and the title goes with the table
TitledTable(st, title, fresh, table_text, chunk_size) ==
    FitTable(IF fresh /\ st.size > 0 /\ trim(st.cur) # <<>> THEN Flush(st) ELSE st,
             IF fresh THEN title \o <<"\n", "\n">> ELSE <<>>,
             table_text,
             (IF fresh THEN len(title \o <<"\n", "\n">>) ELSE 0)
                + len(table_text \o <<"\n", "\n">>),
             chunk_size)

\* chunk_document, a table at line i: the chunker's state after the table
TableStep(ls, i, st, title, chunk_size) ==
    TitledTable(st, title, title # <<>> /\ ~Contains(st.cur, title),
                collect_table(ls, i).table_text, chunk_size)

\* chunk_document, a paragraph from line i to line k - 1
ParagraphStep(ls, i, k, st, chunk_size) ==
    LET paragraph == join(SubSeq(ls, i, k - 1), <<"\n">>)
        paragraph_with_newlines == paragraph \o <<"\n", "\n">>
        st1 == IF st.size + len(paragraph_with_newlines) > chunk_size /\ st.size > 0
               THEN Flush(st) ELSE st
    IN  IF len(paragraph) > chunk_size
        THEN AddSentences(SplitOn(paragraph, SentenceEnds, <<>>, <<>>), st, chunk_size)
        ELSE IF trim(paragraph) # <<>>
        THEN [st1 EXCEPT !.cur = @ \o paragraph_with_newlines,
                         !.size = @ + len(paragraph_with_newlines)]
        ELSE st

\* chunk_document, one round of the loop at line i: the line index the round
\* leaves in i
NextLine_TableEnd(ls, i) ==
    IF trim(ls[i]) = <<>> THEN i + 1
    ELSE IF is_table_start(ls, i) THEN collect_table(ls, i).table_end
    ELSE IF Head(trim(ls[i])) = "#" /\ has_table_after(ls, i) THEN SkipEmpty(ls, i + 1)
    ELSE SkipEmpty(ls, ParagraphEnd(ls, i + 1))

NextLine(ls, i) ==
    IF trim(ls[i]) = <<>> THEN i + 1
    ELSE IF is_table_start(ls, i) THEN collect_table(ls, i).table_end + 1
    ELSE IF Head(trim(ls[i])) = "#" /\ has_table_after(ls, i) THEN SkipEmpty(ls, i + 1)
    ELSE SkipEmpty(ls, ParagraphEnd(ls, i + 1))

\* chunk_document, one round of the loop at line i: the chunks and the
\* current chunk the round leaves
LineState(ls, i, st, chunk_size) ==
    IF trim(ls[i]) = <<>> THEN st
    ELSE IF is_table_start(ls, i)
         THEN TableStep(ls, i, st, TitleBefore(ls, i), chunk_size)
    ELSE IF Head(trim(ls[i])) = "#" /\ has_table_after(ls, i) THEN st
    ELSE ParagraphStep(ls, i, ParagraphEnd(ls, i + 1), st, chunk_size)

\* chunk_document: the loop over the lines
RECURSIVE ChunkLoop(_, _, _, _)
ChunkLine(ls, i, st, chunk_size) ==
    IF i > Len(ls) THEN st
    ELSE ChunkLoop(ls, NextLine(ls, i), LineState(ls, i, st, chunk_size), chunk_size)

\* the while loop; the line index and the chunker's state are values, computed
\* once for each round
ChunkLoop(ls, i, st, chunk_size) ==
    CHOOSE out \in { ChunkLine(ls, v[1], v[2], chunk_size) : v \in { <<i, st>> } } : TRUE

chunk_document_PushAlways(text, chunk_size) ==
    LET st == ChunkLoop(lines(text), 1, [chunks |-> <<>>, cur |-> <<>>, size |-> 0],
                        chunk_size)
        chunks == Append(st.chunks, trim(st.cur))
    IN  IF chunks = <<>> /\ text # <<>> THEN << text >> ELSE chunks

chunk_document(text, chunk_size) ==
    LET st == ChunkLoop(lines(text), 1, [chunks |-> <<>>, cur |-> <<>>, size |-> 0],
                        chunk_size)
        chunks == IF trim(st.cur) # <<>> THEN Append(st.chunks, trim(st.cur)) ELSE st.chunks
    IN  IF chunks = <<>> /\ text # <<>> THEN << text >> ELSE chunks

\* the chunks chunk_document returns when its loop has ended in state st
ChunksOf(text, st) ==
    LET chunks == IF trim(st.cur) # <<>> THEN Append(st.chunks, trim(st.cur)) ELSE st.chunks
    IN  IF chunks = <<>> /\ text # <<>> THEN << text >> ELSE chunks

(* --------------------------- fragment stream --------------------------- *)
\* what the upstream of stream_chat delivers: text, reasoning, the final
\* response, an error, or another item (a tool call)
Items(texts) ==
    [kind : {"Text"}, text : texts]
        \cup [kind : {"Reasoning", "FinalResponse", "Err", "Other"}, text : {<<"e">>}]

\* all sequences over S of length 1..n
RECURSIVE SeqsUpTo(_, _)
SeqsUpTo(S, n) ==
    IF n = 0 THEN {}
    ELSE LET shorter == SeqsUpTo(S, n - 1)
         IN  { <<x>> : x \in S } \cup shorter
                \cup { Append(s, x) : s \in { t \in shorter : Len(t) = n - 1 }, x \in S }

ReasoningNotice == "Reasoning... Please wait..."

\* stream_chat returns the stream over the upstream of the agent
OpenStream(texts, maxItems) ==
    /\ stream_state = "ended" /\ yielded = <<>> /\ upstream = <<>>
    /\ upstream' \in SeqsUpTo(Items(texts), maxItems)
    /\ stream_state' = "open"
    /\ UNCHANGED <<backup_dir, userVars, clockVars, lockVars, yielded, docVars, agentVars, adminVars, histVars, dbVars, req, started>>

\* Text { text } => yield text
UpstreamText ==
    /\ stream_state = "open" /\ upstream # <<>> /\ Head(upstream).kind = "Text"
    /\ yielded' = Append(yielded, Head(upstream).text)
    /\ upstream' = Tail(upstream)
    /\ UNCHANGED <<backup_dir, userVars, clockVars, lockVars, stream_state, docVars, agentVars, adminVars, histVars, dbVars, req, started>>

\* Reasoning { .. } => yield the notice
UpstreamReasoning ==
    /\ stream_state = "open" /\ upstream # <<>> /\ Head(upstream).kind = "Reasoning"
    /\ yielded' = Append(yielded, <<ReasoningNotice>>)
    /\ upstream' = Tail(upstream)
    /\ UNCHANGED <<backup_dir, userVars, clockVars, lockVars, stream_state, docVars, agentVars, adminVars, histVars, dbVars, req, started>>

\* FinalResponse(res) and `_`: nothing is yielded
UpstreamSkipped ==
    /\ stream_state = "open" /\ upstream # <<>>
    /\ Head(upstream).kind \in {"FinalResponse", "Other"}
    /\ upstream' = Tail(upstream)
    /\ UNCHANGED <<backup_dir, userVars, clockVars, lockVars, yielded, stream_state, docVars, agentVars, adminVars, histVars, dbVars,
                   req, started>>

\* UpstreamErr without the break: the loop goes on after the error
UpstreamErr_NoBreak ==
    /\ stream_state = "open" /\ upstream # <<>> /\ Head(upstream).kind = "Err"
    /\ yielded' = Append(yielded, <<ErrorPrefix>> \o Head(upstream).text)
    /\ upstream' = Tail(upstream)
    /\ UNCHANGED <<backup_dir, userVars, clockVars, lockVars, stream_state, docVars, agentVars, adminVars, histVars, dbVars, req, started>>

\* Err(e) => yield format!("Error: {}", e); break: the items that follow are
\* never asked for
UpstreamErr ==
    /\ stream_state = "open" /\ upstream # <<>> /\ Head(upstream).kind = "Err"
    /\ yielded' = Append(yielded, <<ErrorPrefix>> \o Head(upstream).text)
    /\ upstream' = Tail(upstream)
    /\ stream_state' = "ended"
    /\ UNCHANGED <<backup_dir, userVars, clockVars, lockVars, docVars, agentVars, adminVars, histVars, dbVars, req, started>>

\* stream.next() returns None: the loop and the stream end
UpstreamEnd ==
    /\ stream_state = "open" /\ upstream = <<>>
    /\ stream_state' = "ended"
    /\ UNCHANGED <<backup_dir, userVars, clockVars, lockVars, upstream, yielded, docVars, agentVars, adminVars, histVars, dbVars,
                   req, started>>

\* the consumer drops the stream it has read to the end
DropStream ==
    /\ stream_state = "ended" /\ (yielded # <<>> \/ upstream # <<>>)
    /\ yielded' = <<>>
    /\ upstream' = <<>>
    /\ UNCHANGED <<backup_dir, userVars, clockVars, lockVars, stream_state, docVars, agentVars, adminVars, histVars, dbVars, req, started>>

(* --------------------------- document store --------------------------- *)
\* const CHUNK_SIZE: usize = 12000 of process_and_save_document
CHUNK_SIZE == 12000
ONE_DAY == 24 * 60 * 60

\* the ids nanoid!() generates, in the order it generates them
NanoIds == << <<"a">>, <<"b">>, <<"c">>, <<"d">> >>

\* an id that no document was ever stored under
UnknownId == <<"z">>

\* usize::to_string for one digit
DecimalDigits == <<"0", "1", "2", "3", "4", "5", "6", "7", "8", "9">>
to_string(n) == DecimalDigits[n + 1]

FileName == "doc.md"
NewFileName == "new.md"

\* UpdateDocumentRequest.filename: None (<< >>) or Some(name); one of the
\* names holds " (Part "
FileNamesOfUpdate == { <<>>, << <<NewFileName>> >>, << <<"notes", " (Part ", "1).md">> >> }

\* Document { id, content, source }
Document(id, content, source) == [id |-> id, content |-> content, source |-> source]

Documents_OneBased(base_id, chunks) ==
    LET total_chunks == Len(chunks)
    IN  [k \in 1..total_chunks |->
            Document(IF total_chunks = 1 THEN base_id
                     ELSE base_id \o <<"-", to_string(k)>>,
                     chunks[k],
                     IF total_chunks > 1
                     THEN <<FileName, " (Part ", to_string(k), "/", to_string(total_chunks), ")">>
                     ELSE <<FileName>>)]

\* the documents process_and_save_document builds from the chunks
Documents(base_id, chunks) ==
    LET total_chunks == Len(chunks)
    IN  [k \in 1..total_chunks |->
            Document(IF total_chunks = 1 THEN base_id
                     ELSE base_id \o <<"-", to_string(k - 1)>>,
                     chunks[k],
                     IF total_chunks > 1
                     THEN <<FileName, " (Part ", to_string(k), "/", to_string(total_chunks), ")">>
                     ELSE <<FileName>>)]

\* DocumentStore::get_document: None (the empty sequence) without a table,
\* else the first row the filter id = '{id}' selects
get_document(id) ==
    LET found == SelectSeq(rows, LAMBDA d : d.id = id)
    IN  IF ~table_exists \/ found = <<>> THEN <<>> ELSE << found[1] >>

\* DocumentStore::delete_document: open_table fails without a table, any call
\* may fail on the disk (fault); table.delete("id = '{id}'") removes the rows
\* whose id equals the argument
delete_ok(fault) == table_exists /\ ~fault
rows_after_delete(id, fault) ==
    IF delete_ok(fault) THEN SelectSeq(rows, LAMBDA d : d.id # id) ELSE rows

\* the ways add_documents_with_embeddings ends: the embeddings cannot be
\* built, the rows are written and the index cannot be built, or Ok
AddOutcomes == {"embeddings_failed", "index_failed", "ok"}

\* DocumentStore::add_documents_with_embeddings: table.add / create_table
\* append the documents
rows_after_add(documents, outcome) ==
    IF documents = <<>> \/ outcome = "embeddings_failed" THEN rows ELSE rows \o documents
table_after_add(documents, outcome) ==
    IF documents = <<>> \/ outcome = "embeddings_failed" THEN table_exists ELSE TRUE
add_ok(documents, outcome) == documents = <<>> \/ outcome = "ok"

\* the ids a request may name: those stored, and one that is not
RequestIds == { rows[i].id : i \in DOMAIN rows } \cup {UnknownId}

\* Option::None of a query parameter; Some(n) is n
None == -1

\* usize::clamp(min, max)
clamp(x, min, max) == IF x < min THEN min ELSE IF x > max THEN max ELSE x

\* documents.sort_by(|a, b| b.updated_at.cmp(&a.updated_at)) of the rows at the
\* positions S. updated_at is Utc::now() when a row is built and rows are only
\* appended, so a row's position in the table stands for its updated_at
RECURSIVE sort_by_updated_at_desc(_)
sort_by_updated_at_desc(S) ==
    IF S = {} THEN <<>>
    ELSE LET newest == CHOOSE i \in S : \A j \in S : j <= i
         IN  <<rows[newest]>> \o sort_by_updated_at_desc(S \ {newest})

\* the sets of rows table.query().limit(upto) may yield: the query has no
\* ORDER BY, any upto rows of the table
Scans(upto) ==
    { S \in SUBSET DOMAIN rows :
        Cardinality(S) = (IF upto < Len(rows) THEN upto ELSE Len(rows)) }

\* DocumentStore::list_documents_paginated on the rows the query yielded
list_documents_paginated(limit, offset, scan) ==
    IF ~table_exists THEN [documents |-> <<>>, total |-> 0]
    ELSE LET safe_limit == clamp(limit, 1, 1000)
             documents == sort_by_updated_at_desc(scan)
             start == IF offset < Len(documents) THEN offset ELSE Len(documents)
             end == IF start + safe_limit < Len(documents) THEN start + safe_limit
                    ELSE Len(documents)
         IN  [documents |-> SubSeq(documents, start + 1, end), total |-> Len(rows)]

(* --------------------------- document routes -------------------------- *)
\* a document request returns: the status and the ghost fields stay
DocReturned(rec, status) ==
    [IdleDoc EXCEPT !.pc = "done", !.op = rec.op, !.id = rec.id,
                    !.content = rec.content, !.base_id = rec.base_id,
                    !.delete_id = rec.delete_id,
                    !.before = rec.before, !.flag_before = rec.flag_before,
                    !.backups_before = rec.backups_before,
                    !.results = rec.results, !.status = status, !.seq = rec.seq]

\* a document request is received
DocReceived(op, maxDoc) ==
    IF doc.pc \in {"idle", "done"} /\ doc.seq < maxDoc
    THEN << [IdleDoc EXCEPT !.pc = "received", !.op = op, !.before = rows,
                            !.flag_before = needs_rebuild,
                            !.backups_before = backups, !.seq = doc.seq + 1] >>
    ELSE <<>>

\* agent.set_needs_rebuild(true) of a document route
MarkDirty ==
    /\ needs_rebuild' = TRUE
    /\ marksStarted' = marksStarted + 1
    /\ marksDone' = marksDone + 1

\* str::ends_with
ends_with(t, suffix) ==
    Len(suffix) <= Len(t) /\ SubSeq(t, Len(t) - Len(suffix) + 1, Len(t)) = suffix

from_filename_CaseSensitive(filename) ==
    LET lower == filename
    IN  IF ends_with(lower, <<".", "p", "d", "f">>) THEN << "Pdf" >>
        ELSE IF ends_with(lower, <<".", "d", "o", "c", "x">>) THEN << "Docx" >>
        ELSE IF \/ ends_with(lower, <<".", "t", "x", "t">>)
                \/ ends_with(lower, <<".", "j", "s", "o", "n">>)
                \/ ends_with(lower, <<".", "c", "s", "v">>) THEN << "Txt" >>
        ELSE IF ends_with(lower, <<".", "m", "d">>) THEN << "Md" >>
        ELSE IF ends_with(lower, <<".", "x", "l", "s", "x">>) THEN << "Xlsx" >>
        ELSE <<>>

\* DocumentType::from_filename: Some(type) is << type >>, None is << >>
from_filename(filename) ==
    LET lower == to_lowercase(filename)
    IN  IF ends_with(lower, <<".", "p", "d", "f">>) THEN << "Pdf" >>
        ELSE IF ends_with(lower, <<".", "d", "o", "c", "x">>) THEN << "Docx" >>
        ELSE IF \/ ends_with(lower, <<".", "t", "x", "t">>)
                \/ ends_with(lower, <<".", "j", "s", "o", "n">>)
                \/ ends_with(lower, <<".", "c", "s", "v">>) THEN << "Txt" >>
        ELSE IF ends_with(lower, <<".", "m", "d">>) THEN << "Md" >>
        ELSE IF ends_with(lower, <<".", "x", "l", "s", "x">>) THEN << "Xlsx" >>
        ELSE <<>>

\* DocumentParser::parse: an unknown type is an error; the parser of a known
\* type succeeds or fails on the bytes
parse(filenames) ==
    /\ doc.pc \in {"idle", "done"}
    /\ \E filename \in filenames, parsed \in BOOLEAN :
         doc' = [IdleDoc EXCEPT
                   !.pc = "done", !.op = "parse", !.seq = doc.seq, !.content = filename,
                   !.results = from_filename(filename),
                   !.error = IF from_filename(filename) = <<>>
                             THEN <<"Unsupported file type: ">> \o filename
                             ELSE IF parsed THEN <<>> ELSE <<"parser error">>]
    /\ UNCHANGED <<backup_dir, userVars, table_exists, rows, backups, generated, streamVars, agentVars,
                   adminVars, histVars, dbVars, req, started, lockVars, clockVars>>

\* str::replace(from, to) for a one-character pattern
RECURSIVE replace(_, _, _)
replace(s, from, to) ==
    IF s = <<>> THEN <<>>
    ELSE (IF Head(s) = from THEN to ELSE << Head(s) >>) \o replace(Tail(s), from, to)

escaped_Unchanged(cell) == cell

\* table_to_markdown: the cell with '|' and line feeds made harmless
escaped(cell) ==
    IF \E k \in DOMAIN cell : cell[k] \in {"|", "\n"}
    THEN replace(replace(cell, "|", <<"\\", "|">>), "\n", <<" ">>)
    ELSE cell

\* table_to_markdown: `for col_idx in 0..max_cols` over the cells of a row
RECURSIVE RowCells(_, _, _)
RowCells(row, col_idx, max_cols) ==
    IF col_idx >= max_cols THEN <<>>
    ELSE (IF col_idx > 0 THEN <<" ", "|", " ">> ELSE <<>>)
         \o (IF col_idx < Len(row) THEN escaped(row[col_idx + 1]) ELSE <<>>)
         \o RowCells(row, col_idx + 1, max_cols)

\* table_to_markdown: the separator line pushed after the first row
RECURSIVE SeparatorCells(_, _)
SeparatorCells(col_idx, max_cols) ==
    IF col_idx >= max_cols THEN <<>>
    ELSE (IF col_idx > 0 THEN <<" ", "|", " ">> ELSE <<>>)
         \o <<"-", "-", "-">> \o SeparatorCells(col_idx + 1, max_cols)

\* table_to_markdown: `for (idx, row) in table.iter().enumerate()`
RECURSIVE TableLines(_, _, _)
TableLines(table, idx, max_cols) ==
    IF idx >= Len(table) THEN <<>>
    ELSE <<"|", " ">> \o RowCells(table[idx + 1], 0, max_cols) \o <<" ", "|", "\n">>
         \o (IF idx = 0
              THEN <<"|", " ">> \o SeparatorCells(0, max_cols) \o <<" ", "|", "\n">>
              ELSE <<>>)
         \o TableLines(table, idx + 1, max_cols)

\* DocumentParser::table_to_markdown
table_to_markdown(table) ==
    IF table = <<>> THEN <<>>
    ELSE LET max_cols == CHOOSE n \in 0..MaxCols :
                            /\ \A i \in DOMAIN table : Len(table[i]) <= n
                            /\ \E i \in DOMAIN table : Len(table[i]) = n
         IN  IF max_cols = 0 THEN <<>> ELSE TableLines(table, 0, max_cols)

\* parse_docx on a document that holds one table and no paragraph: the rows
\* are the non-empty rows of trimmed cells, the table is pushed as Markdown
\* followed by an empty line, and the result is joined with line feeds
parse_docx(tables) ==
    /\ doc.pc \in {"idle", "done"}
    /\ \E current_table \in tables :
         doc' = [IdleDoc EXCEPT
                   !.pc = "done", !.op = "parse_docx", !.seq = doc.seq,
                   !.table = current_table,
                   !.results = IF current_table = <<>> THEN <<>>
                               ELSE table_to_markdown(current_table) \o <<"\n">>]
    /\ UNCHANGED <<backup_dir, userVars, table_exists, rows, backups, generated, streamVars, agentVars,
                   adminVars, histVars, dbVars, req, started, lockVars, clockVars>>

\* list_documents: GET /api/documents?limit=&offset=
list_documents(limits, offsets) ==
    /\ doc.pc \in {"idle", "done"}
    /\ \E l \in limits, o \in offsets :
         LET limit == clamp(IF l = None THEN 20 ELSE l, 1, 1000)
             offset == IF o = None THEN 0 ELSE o
         IN  \E scan \in Scans(offset + clamp(limit, 1, 1000)) :
               doc' = [IdleDoc EXCEPT
                         !.pc = "done", !.op = "list", !.seq = doc.seq, !.status = 200,
                         !.results = list_documents_paginated(limit, offset, scan).documents,
                         !.total = list_documents_paginated(limit, offset, scan).total,
                         !.limit = limit, !.offset = offset]
    /\ UNCHANGED <<backup_dir, userVars, clockVars, lockVars, table_exists, rows, backups, generated, streamVars, agentVars,
                   adminVars, histVars, dbVars, req, started>>

\* create_document / upload_document: process_and_save_document up to the
\* call of the store
process_and_save_document(ops, contents, maxDoc) ==
    \E op \in ops, content \in contents :
      /\ DocReceived(op, maxDoc) # <<>>
      /\ LET rec == [DocReceived(op, maxDoc)[1] EXCEPT !.content = content]
             chunks == chunk_document(content, CHUNK_SIZE)
             base_id == NanoIds[generated + 1]
         IN  IF trim(content) = <<>> \/ Len(chunks) = 0
             THEN /\ doc' = DocReturned(rec, 400)
                  /\ UNCHANGED generated
             ELSE /\ doc' = [rec EXCEPT !.pc = "add", !.base_id = base_id,
                                        !.documents = Documents(base_id, chunks)]
                  /\ generated' = generated + 1
      /\ UNCHANGED <<backup_dir, userVars, clockVars, lockVars, table_exists, rows, backups, streamVars, agentVars, adminVars,
                     histVars, dbVars, req, started>>

\* update_document up to the delete of the old row
update_document(contents, maxDoc) ==
    \E id \in RequestIds, content \in contents, filename \in FileNamesOfUpdate :
      /\ DocReceived("update", maxDoc) # <<>>
      /\ LET rec == [DocReceived("update", maxDoc)[1] EXCEPT !.id = id, !.content = content]
             found == get_document(id)
         IN  IF found = <<>>
             THEN doc' = DocReturned(rec, 404)
             ELSE doc' = [rec EXCEPT !.pc = "delete_old", !.base_id = id,
                            !.documents = << Document(id, content,
                                 IF filename # <<>> THEN filename[1] ELSE found[1].source) >>]
      /\ UNCHANGED <<backup_dir, userVars, clockVars, lockVars, table_exists, rows, backups, generated, streamVars, agentVars,
                     adminVars, histVars, dbVars, req, started>>

\* update_document: delete_document(&id), its error only logged
DeleteOld ==
    /\ doc.pc = "delete_old"
    /\ \E fault \in BOOLEAN : rows' = rows_after_delete(doc.id, fault)
    /\ doc' = [doc EXCEPT !.pc = "add"]
    /\ UNCHANGED <<backup_dir, userVars, clockVars, lockVars, table_exists, backups, generated, streamVars, agentVars, adminVars,
                   histVars, dbVars, req, started>>

\* process_and_save_document / update_document: add_documents_with_embeddings
\* and the Err arm
AddDocuments ==
    /\ doc.pc = "add"
    /\ \E outcome \in AddOutcomes :
         /\ rows' = rows_after_add(doc.documents, outcome)
         /\ table_exists' = table_after_add(doc.documents, outcome)
         /\ doc' = IF add_ok(doc.documents, outcome)
                   THEN [doc EXCEPT !.pc = "added", !.documents = <<>>]
                   ELSE DocReturned(doc, 500)
    /\ UNCHANGED <<backup_dir, userVars, clockVars, lockVars, backups, generated, streamVars, agentVars, adminVars, histVars,
                   dbVars, req, started>>

\* the Ok arm: save_backup (its error only logged), set_needs_rebuild(true),
\* and the response
Saved ==
    /\ doc.pc = "added"
    /\ \E saved \in BOOLEAN :
         backups' = IF saved THEN backups \cup {doc.base_id} ELSE backups
    /\ MarkDirty
    /\ doc' = DocReturned(doc, 200)
    /\ UNCHANGED <<backup_dir, userVars, clockVars, lockVars, table_exists, rows, generated, streamVars, preamble, preamble_file,
                   agent, agents, freed, admin, accepted, histVars, dbVars, req, started>>

\* doc.source.contains(" (Part ")
is_chunked(d) == Contains(d.source, <<" (Part ">>)

\* parts[..parts.len() - 1].join("-") of id.split('-')
base_id_of(id) ==
    LET parts == SplitOn(id, {"-"}, <<>>, <<>>)
    IN  join(SubSeq(parts, 1, Len(parts) - 1), <<"-">>)

\* delete_document (the route) up to the call of the store
delete_document(maxDoc) ==
    \E id \in RequestIds :
      /\ DocReceived("delete", maxDoc) # <<>>
      /\ LET rec == [DocReceived("delete", maxDoc)[1] EXCEPT !.id = id]
             found == get_document(id)
         IN  IF found = <<>>
             THEN doc' = DocReturned(rec, 404)
             ELSE IF is_chunked(found[1])
             THEN doc' = [rec EXCEPT !.pc = "delete",
                                     !.delete_id = base_id_of(id) \o <<"_CHUNKED">>,
                                     !.backup_id = base_id_of(id)]
             ELSE doc' = [rec EXCEPT !.pc = "delete", !.delete_id = id, !.backup_id = id]
      /\ UNCHANGED <<backup_dir, userVars, clockVars, lockVars, table_exists, rows, backups, generated, streamVars, agentVars,
                     adminVars, histVars, dbVars, req, started>>

\* delete_document (the route): document_store.delete_document(&delete_id)
\* and the Err arm
DeleteStored ==
    /\ doc.pc = "delete"
    /\ \E fault \in BOOLEAN :
         /\ rows' = rows_after_delete(doc.delete_id, fault)
         /\ doc' = IF delete_ok(fault) THEN [doc EXCEPT !.pc = "deleted"]
                   ELSE DocReturned(doc, 500)
    /\ UNCHANGED <<backup_dir, userVars, clockVars, lockVars, table_exists, backups, generated, streamVars, agentVars, adminVars,
                   histVars, dbVars, req, started>>

\* the Ok arm: delete_backup(&backup_id) (its error only logged),
\* set_needs_rebuild(true), 204
Deleted ==
    /\ doc.pc = "deleted"
    /\ \E removed \in BOOLEAN :
         backups' = IF removed THEN backups \ {doc.backup_id} ELSE backups
    /\ MarkDirty
    /\ doc' = DocReturned(doc, 204)
    /\ UNCHANGED <<backup_dir, userVars, clockVars, lockVars, table_exists, rows, generated, streamVars, preamble, preamble_file,
                   agent, agents, freed, admin, accepted, histVars, dbVars, req, started>>

\* a caller of the store deletes an id: DocumentStore::delete_document on a
\* disk without faults
StoreDelete(ids, maxDoc) ==
    \E id \in ids :
      /\ DocReceived("store_delete", maxDoc) # <<>>
      /\ rows' = rows_after_delete(id, FALSE)
      /\ doc' = [DocReceived("store_delete", maxDoc)[1] EXCEPT
                    !.pc = "delete_again", !.id = id,
                    !.results = << delete_ok(FALSE) >>]
      /\ UNCHANGED <<backup_dir, userVars, clockVars, lockVars, table_exists, backups, generated, streamVars, agentVars, adminVars,
                     histVars, dbVars, req, started>>

\* and deletes the same id again
StoreDeleteAgain ==
    /\ doc.pc = "delete_again"
    /\ rows' = rows_after_delete(doc.id, FALSE)
    /\ doc' = DocReturned([doc EXCEPT !.results = Append(@, delete_ok(FALSE))], 0)
    /\ UNCHANGED <<backup_dir, userVars, clockVars, lockVars, table_exists, backups, generated, streamVars, agentVars, adminVars,
                   histVars, dbVars, req, started>>

(* ------------------------- conversation clock ------------------------- *)
\* the wall clock advances; time is counted in steps of twelve hours
TickSeconds == 12 * 60 * 60
Tick(maxTicks) ==
    /\ now < maxTicks * TickSeconds
    /\ now' = now + TickSeconds
    /\ UNCHANGED <<backup_dir, userVars, updated_at, lockVars, docVars, streamVars, agentVars, adminVars, histVars,
                   dbVars, req, started>>

\* ConversationStore::create_conversation: INSERT ... 'active', updated_at = now
create_conversation(maxConvs) ==
    /\ Len(conversations) < maxConvs
    /\ conversations' = Append(conversations, "active")
    /\ updated_at' = Append(updated_at, now)
    /\ UNCHANGED <<backup_dir, userVars, now, messages, lockVars, docVars, streamVars, agentVars, adminVars,
                   histVars, req, started>>

\* ConversationStore::add_message: the transaction sets updated_at of the
\* conversation to the time of the message
add_message ==
    /\ \E c \in DOMAIN conversations :
         /\ updated_at[c] # now
         /\ updated_at' = [updated_at EXCEPT ![c] = now]
    /\ UNCHANGED <<backup_dir, userVars, now, dbVars, lockVars, docVars, streamVars, agentVars, adminVars,
                   histVars, req, started>>

\* ConversationStore::update_conversation with a status: the status is set and
\* updated_at always
update_conversation(statuses) ==
    /\ \E c \in DOMAIN conversations, status \in statuses :
         /\ conversations[c] # status
         /\ conversations' = [conversations EXCEPT ![c] = status]
         /\ updated_at' = [updated_at EXCEPT ![c] = now]
    /\ UNCHANGED <<backup_dir, userVars, now, messages, lockVars, docVars, streamVars, agentVars, adminVars,
                   histVars, req, started>>

close_old_conversations_AnyStatus(ok) ==
    /\ LET one_day_ago == now - ONE_DAY
       IN  conversations' =
              [c \in DOMAIN conversations |->
                  IF ok /\ updated_at[c] < one_day_ago
                  THEN "closed" ELSE conversations[c]]
    /\ UNCHANGED <<backup_dir, userVars, clockVars, messages, lockVars, docVars, streamVars, agentVars, adminVars,
                   histVars, req, started>>

\* one round of the background loop of main.rs: close_old_conversations, its
\* error dropped by unwrap_or(0); UPDATE conversations SET status = 'closed'
\* WHERE updated_at < one_day_ago AND status = 'active'
close_old_conversations(ok) ==
    /\ LET one_day_ago == now - ONE_DAY
       IN  conversations' =
              [c \in DOMAIN conversations |->
                  IF ok /\ updated_at[c] < one_day_ago /\ conversations[c] = "active"
                  THEN "closed" ELSE conversations[c]]
    /\ UNCHANGED <<backup_dir, userVars, clockVars, messages, lockVars, docVars, streamVars, agentVars, adminVars,
                   histVars, req, started>>

(* ------------------------ locks and suspensions ------------------------ *)
\* one statement of a handler: taking a guard (read, write), dropping it
\* (unlock), an .await on an external call (await), the .await on the borrowed
\* agent (use), or a statement that neither blocks nor suspends
Ins(i, l, n) == [i |-> i, l |-> l, n |-> n]

\* RigAgent::rebuild_with_sync with build_agent inlined
rebuild_with_sync ==
    << Ins("read", "context", 0), Ins("load_preamble", "", 0), Ins("unlock", "context", 0),
       Ins("write", "context", 0), Ins("preamble", "", 0), Ins("unlock", "context", 0),
       Ins("read", "context", 0), Ins("unlock", "context", 0),
       Ins("await", "create_vector_index", 0),
       Ins("read", "context", 0), Ins("unlock", "context", 0),
       Ins("swap", "", 0),
       Ins("write", "context", 0), Ins("set", "", 0), Ins("unlock", "context", 0) >>

\* RigAgent::chat / RigAgent::stream_chat: the flag is read under the guard,
\* the rebuild is skipped when it was false, then the pointer is loaded and the
\* agent awaited
agent_call ==
    << Ins("read", "context", 0), Ins("test", "", 0), Ins("unlock", "context", 0),
       Ins("branch", "", Len(rebuild_with_sync)) >>
    \o rebuild_with_sync
    \o << Ins("load", "", 0), Ins("use", "", 0) >>

\* the handlers
Handlers == {"handle_chat", "handle_stream_chat", "process_and_save_document",
             "update_preamble"}

\* the statements of each handler, in order
Program == [op \in Handlers |->
    CASE op = "handle_chat" ->
            << Ins("read", "history", 0), Ins("unlock", "history", 0) >>
            \o agent_call
            \o << Ins("write", "history", 0), Ins("unlock", "history", 0),
                  Ins("await", "save_messages_to_db", 0) >>
      [] op = "handle_stream_chat" ->
            << Ins("read", "history", 0), Ins("unlock", "history", 0) >>
            \o agent_call
            \o << Ins("await", "tx.send", 0),
                  Ins("write", "history", 0), Ins("unlock", "history", 0),
                  Ins("either", "", Len(agent_call) + 2) >>
            \o agent_call
            \o << Ins("write", "history", 0), Ins("unlock", "history", 0),
                  Ins("await", "save_messages_to_db", 0) >>
      [] op = "process_and_save_document" ->
            << Ins("read", "context", 0), Ins("unlock", "context", 0),
               Ins("await", "add_documents_with_embeddings", 0),
               Ins("await", "save_backup", 0),
               Ins("write", "context", 0), Ins("set", "", 1), Ins("unlock", "context", 0) >>
      [] op = "update_preamble" ->
            << Ins("write", "context", 0), Ins("put_preamble", "", 0),
               Ins("unlock", "context", 0),
               Ins("await", "save_preamble_to_file", 0), Ins("file", "", 0) >>]

\* the statement task t is at
Cur(t) == Program[task[t].op][task[t].pc]
Running(t) == task[t].op # "none" /\ task[t].pc \in 1..Len(Program[task[t].op])
Completed(t) == task[t].op # "none" /\ task[t].pc = Len(Program[task[t].op]) + 1
Step(t) == [task EXCEPT ![t].pc = @ + 1]

\* a request is received and its task spawned, once the request before it
\* has completed
Begin(t, ops, maxReq) ==
    /\ task[t].op = "none" \/ Completed(t)
    /\ task[t].served < maxReq
    /\ \E op \in ops :
         task' = [task EXCEPT ![t] = [IdleTask EXCEPT !.op = op, !.pc = 1,
                                                     !.served = task[t].served + 1]]
    /\ UNCHANGED <<backup_dir, userVars, clockVars, locks, docVars, streamVars, agentVars, adminVars, histVars, dbVars,
                   req, started>>

\* RwLock::read / RwLock::write: the thread blocks until the guard is granted
Acquire(t) ==
    /\ Running(t) /\ Cur(t).i \in {"read", "write"}
    /\ locks[Cur(t).l].writer = 0
    /\ Cur(t).i = "write" => locks[Cur(t).l].readers = {}
    /\ locks' = IF Cur(t).i = "read"
                THEN [locks EXCEPT ![Cur(t).l].readers = @ \cup {t}]
                ELSE [locks EXCEPT ![Cur(t).l].writer = t]
    /\ task' = Step(t)
    /\ UNCHANGED <<backup_dir, userVars, clockVars, docVars, streamVars, agentVars, adminVars, histVars, dbVars, req, started>>

\* the guard goes out of scope
Release(t) ==
    /\ Running(t) /\ Cur(t).i = "unlock"
    /\ locks' = [locks EXCEPT ![Cur(t).l] =
                    [readers |-> @.readers \ {t},
                     writer |-> IF @.writer = t THEN 0 ELSE @.writer]]
    /\ task' = Step(t)
    /\ UNCHANGED <<backup_dir, userVars, clockVars, docVars, streamVars, agentVars, adminVars, histVars, dbVars, req, started>>

\* a statement that neither blocks nor suspends
Statement(t) ==
    /\ Running(t)
    /\ Cur(t).i \in {"load_preamble", "preamble", "swap", "set", "test", "branch",
                     "either", "load", "put_preamble", "file"}
    /\ preamble' = CASE Cur(t).i = "preamble" -> preamble_file
                      [] Cur(t).i = "put_preamble" -> "p1"
                      [] OTHER -> preamble
    /\ preamble_file' = IF Cur(t).i = "file" THEN "p1" ELSE preamble_file
    /\ needs_rebuild' = CASE Cur(t).i = "set" -> (Cur(t).n = 1)
                           [] Cur(t).i = "put_preamble" -> TRUE
                           [] OTHER -> needs_rebuild
    /\ agents' = IF Cur(t).i = "swap"
                 THEN Append(agents, build_with_vector_index(collection_count))
                 ELSE agents
    /\ agent' = IF Cur(t).i = "swap" THEN Len(agents) + 1 ELSE agent
    /\ freed' = IF Cur(t).i = "swap" THEN freed \cup {agent} ELSE freed
    /\ \E jump \in BOOLEAN :
         /\ Cur(t).i = "branch" => jump = ~task[t].needs_rebuild
         /\ Cur(t).i \notin {"branch", "either"} => ~jump
         /\ task' = [task EXCEPT
                ![t].pc = @ + 1 + (IF jump THEN Cur(t).n ELSE 0),
                ![t].needs_rebuild = IF Cur(t).i = "test" THEN needs_rebuild ELSE @,
                ![t].agent_ptr = IF Cur(t).i = "load" THEN agent ELSE @]
    /\ UNCHANGED <<backup_dir, userVars, clockVars, locks, docVars, streamVars, adminVars, histVars, dbVars, req, started>>

\* an .await on an external call returns; create_vector_index may return Err,
\* which ends the request with an error
Await(t) ==
    /\ Running(t) /\ Cur(t).i = "await"
    /\ \E ok \in (IF Cur(t).l = "create_vector_index" THEN BOOLEAN ELSE {TRUE}) :
         task' = IF ok THEN Step(t)
                 ELSE [task EXCEPT ![t].pc = Len(Program[task[t].op]) + 1]
    /\ UNCHANGED <<backup_dir, userVars, clockVars, locks, docVars, streamVars, agentVars, adminVars, histVars, dbVars,
                   req, started>>

\* agent.chat(..).await / the stream of agent.stream_chat on the agent behind
\* `unsafe { &*agent_ptr }`: when the agent has been dropped the behaviour is
\* undefined, the call returns or the task never resumes
Use(t) ==
    /\ Running(t) /\ Cur(t).i = "use"
    /\ \E resumes \in (IF task[t].agent_ptr \in freed THEN BOOLEAN ELSE {TRUE}) :
         task' = IF resumes THEN Step(t) ELSE [task EXCEPT ![t].pc = 0]
    /\ UNCHANGED <<backup_dir, userVars, clockVars, locks, docVars, streamVars, agentVars, adminVars, histVars, dbVars,
                   req, started>>

(* --------------------- chunk_document, round by round ------------------ *)
\* chunk_document(text, chunk_size) is called: i = 0 in the code is line 1
ChunkBegin(texts, chunk_sizes, maxReq) ==
    /\ doc.pc \in {"idle", "done"} /\ doc.seq < maxReq
    /\ \E text \in texts, chunk_size \in chunk_sizes :
         doc' = [IdleDoc EXCEPT !.pc = "chunking", !.op = "chunk_document",
                                !.seq = doc.seq + 1, !.content = text,
                                !.chunk_size = chunk_size, !.i = 1]
    /\ UNCHANGED <<backup_dir, userVars, table_exists, rows, backups, generated, streamVars,
                   agentVars, adminVars, histVars, dbVars, req, started, lockVars, clockVars>>

\* while i < lines.len(): one round of the loop
ChunkRound ==
    /\ doc.pc = "chunking" /\ doc.i <= Len(lines(doc.content))
    /\ doc' = [doc EXCEPT !.i = NextLine(lines(doc.content), doc.i),
                          !.chunker = LineState(lines(doc.content), doc.i, doc.chunker,
                                                doc.chunk_size)]
    /\ UNCHANGED <<backup_dir, userVars, table_exists, rows, backups, generated, streamVars,
                   agentVars, adminVars, histVars, dbVars, req, started, lockVars, clockVars>>

\* the loop has ended: the last chunk is added and the chunks are returned
ChunkEnd ==
    /\ doc.pc = "chunking" /\ doc.i > Len(lines(doc.content))
    /\ doc' = [doc EXCEPT !.pc = "done", !.results = ChunksOf(doc.content, doc.chunker)]
    /\ UNCHANGED <<backup_dir, userVars, table_exists, rows, backups, generated, streamVars,
                   agentVars, adminVars, histVars, dbVars, req, started, lockVars, clockVars>>

(* ------------------------------ file backup --------------------------- *)
\* str::starts_with
starts_with(t, prefix) ==
    Len(prefix) <= Len(t) /\ SubSeq(t, 1, Len(prefix)) = prefix

\* a file of the backup directory: its name, and the doc_id save_backup
\* wrote it for (a ghost field)
BackupFile(name, doc_id) == [name |-> name, doc_id |-> doc_id]

\* char::is_alphanumeric on the characters used here
is_alphanumeric(c) ==
    \/ \E k \in DOMAIN Lowercase : c \in {Lowercase[k], Uppercase[k]}
    \/ \E k \in DOMAIN DecimalDigits : c = DecimalDigits[k]

\* FileBackup::is_safe_identifier
is_safe_identifier(s) ==
    /\ ~(s = <<>> \/ Len(s) > 255)
    /\ \A k \in DOMAIN s : is_alphanumeric(s[k]) \/ s[k] = "_" \/ s[k] = "-"

\* FileBackup::sanitize_filename: control characters removed, separators,
\* reserved characters and dots replaced by '_', at most 100 characters,
\* "unnamed" when nothing is left
sanitize_filename(filename) ==
    LET kept == SelectSeq(filename, LAMBDA c : c \notin {"\n", "\r"})
        sanitized == [k \in DOMAIN kept |->
                        IF kept[k] \in {"/", "\\", ":", "*", "?", "\"", "<", ">", "|", "."}
                        THEN "_" ELSE kept[k]]
    IN  IF Len(sanitized) > 100 THEN SubSeq(sanitized, 1, 100)
        ELSE IF sanitized = <<>> THEN <<"unnamed">>
        ELSE sanitized

\* FileBackup::save_backup; the timestamp is the clock's %Y%m%d_%H%M%S, the
\* write may fail
save_backup(doc_ids, filenames, timestamps, maxReq) ==
    /\ doc.pc \in {"idle", "done"} /\ doc.seq < maxReq
    /\ \E doc_id \in doc_ids, filename \in filenames, timestamp \in timestamps,
          written \in BOOLEAN :
         LET backup_filename == doc_id \o <<"_">> \o timestamp \o <<"_">>
                                   \o sanitize_filename(filename)
             ok == is_safe_identifier(doc_id) /\ written
         IN  /\ backup_dir' =
                    IF ok
                    THEN { f \in backup_dir : f.name # backup_filename }
                            \cup { BackupFile(backup_filename, doc_id) }
                    ELSE backup_dir
             /\ doc' = [IdleDoc EXCEPT !.pc = "done", !.op = "save_backup",
                                       !.seq = doc.seq + 1, !.id = doc_id,
                                       !.backups_before = backup_dir,
                                       !.results = IF ok THEN backup_filename ELSE <<>>,
                                       !.status = IF ok THEN 0 ELSE 1]
    /\ UNCHANGED <<userVars, table_exists, rows, backups, generated, streamVars, agentVars,
                   adminVars, histVars, dbVars, req, started, lockVars, clockVars>>

\* FileBackup::delete_backup: every file whose name starts with doc_id + "_"
\* is removed, unless remove_file fails on it (the error is only logged)
delete_backup(doc_ids, maxReq) ==
    /\ doc.pc \in {"idle", "done"} /\ doc.seq < maxReq
    /\ \E doc_id \in doc_ids :
         LET expected_prefix == doc_id \o <<"_">>
             matching == { f \in backup_dir : starts_with(f.name, expected_prefix) }
         IN  \E failed \in SUBSET matching :
               /\ backup_dir' = IF is_safe_identifier(doc_id)
                                THEN (backup_dir \ matching) \cup failed
                                ELSE backup_dir
               /\ doc' = [IdleDoc EXCEPT !.pc = "done", !.op = "delete_backup",
                                         !.seq = doc.seq + 1, !.id = doc_id,
                                         !.backups_before = backup_dir,
                                         !.total = IF is_safe_identifier(doc_id)
                                                   THEN Cardinality(matching \ failed) ELSE 0,
                                         !.status = IF is_safe_identifier(doc_id) THEN 0 ELSE 1]
    /\ UNCHANGED <<userVars, table_exists, rows, backups, generated, streamVars, agentVars,
                   adminVars, histVars, dbVars, req, started, lockVars, clockVars>>

(* ------------------------------ user store ---------------------------- *)
\* Option<UserRole>: None is << >>, Some(role) is << role >>
unwrap_or(option, default) == IF option = <<>> THEN default ELSE option[1]

\* get_user_by_id: SELECT ... WHERE id = ?
get_user_by_id(id) == SelectSeq(users, LAMBDA u : u.id = id)

\* SELECT COUNT(*) FROM users WHERE role = 'admin'
admin_count == Len(SelectSeq(users, LAMBDA u : u.role = "admin"))

\* a task takes a user administration request
Receives(t, maxReq) == user_task[t].pc \in {"idle", "done"} /\ user_task[t].served < maxReq

Received(t, op, id) ==
    [IdleUserTask EXCEPT !.op = op, !.id = id, !.served = user_task[t].served + 1]

UserDone(t, outcome) ==
    user_task' = [user_task EXCEPT ![t].pc = "done", ![t].outcome = outcome]

\* create_user: the INSERT; username is UNIQUE, the id comes from the
\* AUTOINCREMENT sequence
create_user(t, names, roles, statuses, maxReq) ==
    /\ Receives(t, maxReq)
    /\ user_seq < SEQ_START + MaxUsers
    /\ \E username \in names, role \in roles, status \in statuses :
         IF \E i \in DOMAIN users : users[i].username = username
         THEN /\ user_task' = [user_task EXCEPT ![t] =
                    [Received(t, "create", 0) EXCEPT !.pc = "done", !.outcome = "error"]]
              /\ UNCHANGED <<users, user_seq>>
         ELSE /\ users' = Append(users, [id |-> user_seq + 1, username |-> username,
                                         role |-> unwrap_or(role, "user"),
                                         status |-> IF status = None THEN 1 ELSE status])
              /\ user_seq' = user_seq + 1
              /\ user_task' = [user_task EXCEPT ![t] =
                    [Received(t, "create", user_seq + 1) EXCEPT !.pc = "done", !.outcome = "ok"]]
    /\ UNCHANGED <<backup_dir, clockVars, lockVars, docVars, streamVars, agentVars, adminVars,
                   histVars, dbVars, req, started>>

\* update_user up to the UPDATE: without a field to set it only reads the
\* user; the UPDATE sets the role and the status given
update_user(t, ids, passwords, roles, statuses, maxReq) ==
    /\ Receives(t, maxReq)
    /\ \E id \in ids, password \in passwords, role \in roles, status \in statuses :
         LET found == get_user_by_id(id) # <<>>
             rec == Received(t, "update", id)
         IN  IF ~password /\ role = <<>> /\ status = None
             THEN /\ user_task' = [user_task EXCEPT ![t] =
                        [rec EXCEPT !.pc = "done",
                                    !.outcome = IF found THEN "ok" ELSE "error"]]
                  /\ UNCHANGED users
             ELSE /\ users' = [i \in DOMAIN users |->
                                 IF users[i].id = id
                                 THEN [users[i] EXCEPT
                                         !.role = unwrap_or(role, @),
                                         !.status = IF status = None THEN @ ELSE status]
                                 ELSE users[i]]
                  /\ user_task' = [user_task EXCEPT ![t] =
                        IF found THEN [rec EXCEPT !.pc = "select"]
                        ELSE [rec EXCEPT !.pc = "done", !.outcome = "error"]]
    /\ UNCHANGED <<backup_dir, user_seq, clockVars, lockVars, docVars, streamVars, agentVars,
                   adminVars, histVars, dbVars, req, started>>

\* update_user: get_user_by_id after the UPDATE
UpdatedUser(t) ==
    /\ user_task[t].pc = "select"
    /\ UserDone(t, IF get_user_by_id(user_task[t].id) # <<>> THEN "ok" ELSE "error")
    /\ UNCHANGED <<backup_dir, users, user_seq, clockVars, lockVars, docVars, streamVars,
                   agentVars, adminVars, histVars, dbVars, req, started>>

\* delete_user: the test on the id of the default admin
delete_user(t, ids, maxReq) ==
    /\ Receives(t, maxReq)
    /\ \E id \in ids :
         user_task' = [user_task EXCEPT ![t] =
            IF id = ADMIN_ID
            THEN [Received(t, "delete", id) EXCEPT !.pc = "done", !.outcome = "error"]
            ELSE [Received(t, "delete", id) EXCEPT !.pc = "get"]]
    /\ UNCHANGED <<backup_dir, users, user_seq, clockVars, lockVars, docVars, streamVars,
                   agentVars, adminVars, histVars, dbVars, req, started>>

\* delete_user: get_user_by_id and the test on the role
DeleteGet(t) ==
    /\ user_task[t].pc = "get"
    /\ LET found == get_user_by_id(user_task[t].id)
       IN  IF found = <<>> THEN UserDone(t, "error")
           ELSE user_task' = [user_task EXCEPT ![t].pc =
                    IF found[1].role = "admin" THEN "count" ELSE "delete"]
    /\ UNCHANGED <<backup_dir, users, user_seq, clockVars, lockVars, docVars, streamVars,
                   agentVars, adminVars, histVars, dbVars, req, started>>

\* delete_user: the count of the admins
DeleteCount(t) ==
    /\ user_task[t].pc = "count"
    /\ IF admin_count <= 1 THEN UserDone(t, "error")
       ELSE user_task' = [user_task EXCEPT ![t].pc = "delete"]
    /\ UNCHANGED <<backup_dir, users, user_seq, clockVars, lockVars, docVars, streamVars,
                   agentVars, adminVars, histVars, dbVars, req, started>>

\* delete_user: DELETE FROM users WHERE id = ?
DeleteRow(t) ==
    /\ user_task[t].pc = "delete"
    /\ users' = SelectSeq(users, LAMBDA u : u.id # user_task[t].id)
    /\ UserDone(t, "ok")
    /\ UNCHANGED <<backup_dir, user_seq, clockVars, lockVars, docVars, streamVars,
                   agentVars, adminVars, histVars, dbVars, req, started>>

(* --------------------------- specifications --------------------------- *)
UserTexts == { <<"h", "i">>, <<"?">> }
LongTexts == { <<"h", "i">> }
ResponseTexts == { <<"o", "k">> }
SummaryTexts == { <<"s">> }
Preambles == { "p1", "p2" }
Kinds == { "chat", "stream" }
SseFragments == { <<"o", "k">>, <<"a", "\n", "b">> }
TalkTexts == { <<"h", "i">>, <<"B", "y", "e">> }
DocTexts == { <<"x">>, <<BigWord, ".", BigWord>>, <<" ">> }
UpdateTexts == { <<"y">> }
DocOps == {"create", "upload"}

\* the agent core under concurrent callers and mutations
Next ==
    \/ \E r \in Slots : Call(r, Kinds, MaxRequests)
    \/ \E r \in Slots : RebuildStore(r)
    \/ \E r \in Slots : BuildOk(r)
    \/ \E r \in Slots : BuildFail(r)
    \/ \E r \in Slots : Swap(r)
    \/ \E r \in Slots : Clear(r)
    \/ \E r \in Slots : ChatErr(r)
    \/ \E r \in Slots : TaskChatOk(r)
    \/ \E r \in Slots : TaskStreamDone(r)
    \/ set_needs_rebuild(MaxMutations)
    \/ update_preamble(Preambles, MaxMutations)
    \/ SavePreambleOk
    \/ SavePreambleFail

Spec == Init /\ [][Next]_vars

\* the chat handlers of one user, statement by statement, with one document
\* mutation; ChatRequests requests leave the history below COMPRESS_THRESHOLD
\* and no text of UserTexts holds an end word
NextChat ==
    \/ \E r \in Slots : Start(r, UserTexts, Kinds, ChatRequests, TRUE, {FALSE})
    \/ \E r \in Slots : CacheGet(r)
    \/ \E r \in Slots : CacheInsert(r)
    \/ \E r \in Slots : RebuildStore(r)
    \/ \E r \in Slots : BuildOk(r)
    \/ \E r \in Slots : BuildFail(r)
    \/ \E r \in Slots : Swap(r)
    \/ \E r \in Slots : Clear(r)
    \/ \E r \in Slots : ChatOk(r, ResponseTexts)
    \/ \E r \in Slots : ChatErr(r)
    \/ \E r \in Slots : StreamText(r, ResponseTexts, MaxFrags)
    \/ \E r \in Slots : Disconnect(r)
    \/ \E r \in Slots : StreamEnd(r)
    \/ \E r \in Slots : StreamError(r)
    \/ \E r \in Slots : DbGet(r)
    \/ \E r \in Slots : DbCreate(r)
    \/ \E r \in Slots : DbUser(r)
    \/ \E r \in Slots : DbAsst(r)
    \/ set_needs_rebuild(ChatMutations)

SpecChat == Init /\ [][NextChat]_vars

\* long runs of the chat handlers: one message text, untagged turns, an
\* upstream that yields no text fragment before it ends or fails, and the
\* log written in one step; the length of the history depends on none of these
NextLong ==
    \/ \E r \in Slots : Start(r, LongTexts, Kinds, LongRequests, FALSE, {FALSE})
    \/ \E r \in Slots : CacheGet(r)
    \/ \E r \in Slots : CacheInsert(r)
    \/ \E r \in Slots : ChatOk(r, ResponseTexts)
    \/ \E r \in Slots : SummaryOk(r, SummaryTexts)
    \/ \E r \in Slots : ChatErr(r)
    \/ \E r \in Slots : StreamEnd(r)
    \/ \E r \in Slots : StreamError(r)
    \/ \E r \in Slots : save_messages_to_db(r)

SpecLong == Init /\ [][NextLong]_vars

\* overlapping stream requests of one user, their turns tagged, enough of
\* them for the history to pass COMPRESS_THRESHOLD while another request runs
NextOverlap ==
    \/ \E r \in Slots : Start(r, LongTexts, {"stream"}, OverlapRequests, TRUE, {FALSE})
    \/ \E r \in Slots : CacheGet(r)
    \/ \E r \in Slots : CacheInsert(r)
    \/ \E r \in Slots : SummaryOk(r, SummaryTexts)
    \/ \E r \in Slots : ChatErr(r)
    \/ \E r \in Slots : StreamEnd(r)
    \/ \E r \in Slots : save_messages_to_db(r)

SpecOverlap == Init /\ [][NextOverlap]_vars

\* the event stream of handle_stream_chat: one request, with or without a
\* user_id, fragments with and without line feeds, and one document mutation
\* that makes the request rebuild the agent
NextSse ==
    \/ \E r \in Slots : Start(r, LongTexts, {"stream"}, SseRequests, TRUE, BOOLEAN)
    \/ \E r \in Slots : CacheGet(r)
    \/ \E r \in Slots : CacheInsert(r)
    \/ \E r \in Slots : RebuildStore(r)
    \/ \E r \in Slots : BuildOk(r)
    \/ \E r \in Slots : BuildFail(r)
    \/ \E r \in Slots : Swap(r)
    \/ \E r \in Slots : Clear(r)
    \/ \E r \in Slots : StreamText(r, SseFragments, MaxSseFrags)
    \/ \E r \in Slots : Disconnect(r)
    \/ \E r \in Slots : StreamEnd(r)
    \/ \E r \in Slots : StreamError(r)
    \/ \E r \in Slots : DbGet(r)
    \/ \E r \in Slots : DbCreate(r)
    \/ \E r \in Slots : DbUser(r)
    \/ \E r \in Slots : DbAsst(r)
    \/ set_needs_rebuild(ChatMutations)

SpecSse == Init /\ [][NextSse]_vars

\* the fragment stream of stream_chat over every upstream of up to MaxItems
\* items; the consumer polls the stream until it ends
Poll == UpstreamText \/ UpstreamReasoning \/ UpstreamSkipped \/ UpstreamErr \/ UpstreamEnd

NextStream ==
    \/ OpenStream(SseFragments, MaxItems)
    \/ UpstreamText
    \/ UpstreamReasoning
    \/ UpstreamSkipped
    \/ UpstreamErr
    \/ UpstreamEnd
    \/ DropStream

SpecStream == Init /\ [][NextStream]_vars /\ WF_vars(Poll)

\* conversations of one user: handle_chat requests whose message may hold an
\* end-of-conversation word, with the agent never marked for a rebuild
NextTalk ==
    \/ \E r \in Slots : Start(r, TalkTexts, {"chat"}, TalkRequests, TRUE, {FALSE})
    \/ \E r \in Slots : CacheGet(r)
    \/ \E r \in Slots : CacheInsert(r)
    \/ \E r \in Slots : ChatOk(r, ResponseTexts)
    \/ \E r \in Slots : ChatErr(r)
    \/ \E r \in Slots : DbGet(r)
    \/ \E r \in Slots : DbCreate(r)
    \/ \E r \in Slots : DbUser(r)
    \/ \E r \in Slots : DbClose(r)
    \/ \E r \in Slots : DbAsst(r)

SpecTalk == Init /\ [][NextTalk]_vars

\* the document routes, one request at a time, a caller of the store that
\* deletes an id twice, and one chat request that may rebuild the agent
NextDocs ==
    \/ process_and_save_document(DocOps, DocTexts, MaxDocRequests)
    \/ update_document(UpdateTexts, MaxDocRequests)
    \/ DeleteOld
    \/ AddDocuments
    \/ Saved
    \/ delete_document(MaxDocRequests)
    \/ DeleteStored
    \/ Deleted
    \/ StoreDelete(RequestIds, MaxDocRequests)
    \/ StoreDeleteAgain
    \/ \E r \in Slots : Call(r, Kinds, DocChats)
    \/ \E r \in Slots : RebuildStore(r)
    \/ \E r \in Slots : BuildOk(r)
    \/ \E r \in Slots : BuildFail(r)
    \/ \E r \in Slots : Swap(r)
    \/ \E r \in Slots : Clear(r)
    \/ \E r \in Slots : ChatErr(r)
    \/ \E r \in Slots : TaskChatOk(r)
    \/ \E r \in Slots : TaskStreamDone(r)

SpecDocs == Init /\ [][NextDocs]_vars

\* the characters of the request bodies: a long word, a sentence end, the
\* white space, the marks of a table row and of a title
TextChars == { BigWord, ".", "\n", " ", "|", "#" }

\* tables larger than a chunk: two rows, three rows, a header larger than a
\* chunk, and tables under a title
LargeTables ==
    { <<"|", BigWord, "\n", "|", BigWord>>,
      <<"|", BigWord, "\n", "|", "\n", "|", BigWord>>,
      <<"|", BigWord, BigWord, "\n", "|", "\n", "|">>,
      <<"#", "\n", "|", BigWord, "\n", "|", BigWord, "\n", "|", BigWord>>,
      <<"#", "\n", "|", BigWord, "\n", "|", "\n", "|", BigWord, "\n", "|", BigWord>> }

\* CreateDocumentRequest.content / the uploaded file: every text of at most
\* MaxTextLen characters, the empty one included, and the large tables
IngestTexts == {<<>>} \cup SeqsUpTo(TextChars, MaxTextLen) \cup LargeTables

\* create_document and upload_document alone, one request after another
NextIngest ==
    \/ process_and_save_document(DocOps, IngestTexts, IngestRequests)
    \/ AddDocuments
    \/ Saved

SpecIngest == Init /\ [][NextIngest]_vars

\* the query parameters of GET /api/documents: absent, 0, small values and
\* one above the largest page
QueryLimits == {None, 0, 1001} \cup 1..MaxLimit
QueryOffsets == {None} \cup 0..MaxOffset

\* file names: a stem, an extension in lower case, upper case or capitalised,
\* with or without the dot, and possibly more text after it
Extensions ==
    { <<"p", "d", "f">>, <<"d", "o", "c", "x">>, <<"x", "l", "s", "x">>, <<"t", "x", "t">>,
      <<"j", "s", "o", "n">>, <<"c", "s", "v">>, <<"m", "d">>, <<"d", "o", "c">>,
      <<"p", "d">>, <<"u", "n", "k", "n", "o", "w", "n">> }
to_uppercase(text) ==
    [i \in DOMAIN text |->
        IF \E k \in DOMAIN Lowercase : Lowercase[k] = text[i]
        THEN Uppercase[CHOOSE k \in DOMAIN Lowercase : Lowercase[k] = text[i]]
        ELSE text[i]]
FileNames ==
    { stem \o dot \o cased \o tail :
        stem \in { <<>>, <<"t", "e", "s", "t">>, <<"a", ".", "b">> },
        dot \in { <<>>, <<".">> },
        cased \in UNION { { e, to_uppercase(e), to_uppercase(SubSeq(e, 1, 1)) \o Tail(e) } :
                            e \in Extensions },
        tail \in { <<>>, <<"5">> } }

\* the store filled by create and upload requests, and the requests that
\* read it
NextTools ==
    \/ process_and_save_document(DocOps, DocTexts, ToolRequests)
    \/ AddDocuments
    \/ Saved
    \/ list_documents(QueryLimits, QueryOffsets)

\* the cells of a Word table: trimmed text with pipes, line feeds and
\* backslashes
CellTexts == { <<>>, <<"a">>, <<"b", "|", "|">>, <<"a", "\n", "\\">> }
TableRowsUpTo(n) == UNION { [1..k -> CellTexts] : k \in 1..n }
\* every table of at most two rows, and three-row tables over a few rows
DocxTables ==
    {<<>>}
    \cup UNION { [1..r -> TableRowsUpTo(MaxCols)] : r \in 1..(MaxTableRows - 1) }
    \cup [1..MaxTableRows -> { << <<"a">> >>, << <<"b", "|", "|">>, <<>> >>,
                               << <<>>, <<"a", "\n", "\\">> >> }]

\* user administration: requests on two tasks over the ids the sequence
\* can give, with and without a role, a status and a password
UserIds == (SEQ_START + 1)..(SEQ_START + MaxUsers)
UserNames == { "admin", "u1", "u2" }
UserRoles == { <<>>, <<"admin">>, <<"user">> }
UserStatuses == { None, 0, 1 }

NextUsers ==
    \/ \E t \in 1..NumUserTasks :
          create_user(t, UserNames, UserRoles, UserStatuses, MaxUserRequests)
    \/ \E t \in 1..NumUserTasks :
          update_user(t, UserIds, BOOLEAN, UserRoles, UserStatuses, MaxUserRequests)
    \/ \E t \in 1..NumUserTasks : UpdatedUser(t)
    \/ \E t \in 1..NumUserTasks : delete_user(t, UserIds, MaxUserRequests)
    \/ \E t \in 1..NumUserTasks : DeleteGet(t)
    \/ \E t \in 1..NumUserTasks : DeleteCount(t)
    \/ \E t \in 1..NumUserTasks : DeleteRow(t)

SpecUsers == Init /\ [][NextUsers]_vars

\* chunk_document alone, round by round: the texts of the uploads, with
\* small and large chunk sizes
ChunkSizes == {1, 3, CHUNK_SIZE}

NextChunk ==
    \/ ChunkBegin(IngestTexts, ChunkSizes, ChunkRequests)
    \/ ChunkRound
    \/ ChunkEnd

SpecChunk == Init /\ [][NextChunk]_vars

\* the backup directory: ids with and without '_', one of them the other
\* followed by '_', an unsafe id, and file names that need cleaning
BackupIds == { <<"a">>, <<"a", "_", "b">>, <<"b">>, <<"a", "/">>, <<>> }
BackupNames == { <<"x", ".", "m", "d">>, <<"\n">> }
BackupTimes == { <<"2", "0", "_", "0">>, <<"2", "0", "_", "1">> }

NextBackup ==
    \/ save_backup(BackupIds, BackupNames, BackupTimes, MaxBackupRequests)
    \/ delete_backup(BackupIds, MaxBackupRequests)

SpecBackup == Init /\ [][NextBackup]_vars

\* the parsing of uploaded files
NextParse ==
    \/ parse(FileNames)
    \/ parse_docx(DocxTables)

SpecParse == Init /\ [][NextParse]_vars

SpecTools == Init /\ [][NextTools]_vars

\* the conversations table under the clock: conversations are created, get
\* messages and statuses, and the background loop runs again and again; a
\* round whose UPDATE succeeds is not postponed forever; here the background
\* loop is the only one that closes
NextClose ==
    \/ Tick(MaxTicks)
    \/ create_conversation(MaxConvs)
    \/ add_message
    \/ update_conversation({"active", "escalated"})
    \/ \E ok \in BOOLEAN : close_old_conversations(ok)

SpecClose == Init /\ [][NextClose]_vars /\ WF_vars(close_old_conversations(TRUE))

\* NumTasks tasks serving requests of one user, statement by statement, each
\* task scheduled again and again by the runtime
Advance(t) == Acquire(t) \/ Release(t) \/ Statement(t) \/ Await(t) \/ Use(t)

NextLocks ==
    \/ \E t \in 1..NumTasks : Begin(t, Handlers, MaxTaskRequests)
    \/ \E t \in 1..NumTasks : Acquire(t)
    \/ \E t \in 1..NumTasks : Release(t)
    \/ \E t \in 1..NumTasks : Statement(t)
    \/ \E t \in 1..NumTasks : Await(t)
    \/ \E t \in 1..NumTasks : Use(t)

SpecLocks == Init /\ [][NextLocks]_vars /\ \A t \in 1..NumTasks : WF_vars(Advance(t))

TypeOK ==
    /\ needs_rebuild \in BOOLEAN
    /\ agent \in 1..Len(agents)
    /\ freed \subseteq 1..Len(agents)
    /\ chat_store \in 0..Len(histories)

(* ------------------------------ claims -------------------------------- *)
\* the task holds a reference to an agent
HoldsAgent(rec) == rec.pc \in {"completion", "streaming"}

\* in this step RigAgent::chat returns Ok(response) to task r, or
\* RigAgent::stream_chat returns Ok(stream)
ReturnsOk(r) ==
    /\ req'[r].caller = "task"
    /\ \/ req[r].pc = "completion" /\ req'[r].pc = "done" /\ req'[r].outcome = "ok"
       \/ req[r].pc # "streaming" /\ req'[r].pc = "streaming"

\* the call of task r started after a mutation had returned, while none was
\* in progress, and no mutation has started since
FollowsMarkDirty(r) ==
    /\ req'[r].startSeq >= 1
    /\ req'[r].startQuiet
    /\ marksStarted' = req'[r].startSeq

\* C1: when a chat or stream_chat call that follows a mark_dirty returns
\* successfully (and no mutation ran during the call), the current agent was
\* compiled with the current preamble, which is the latest accepted one, and
\* needs_rebuild is false
C1_ChatAfterMarkDirtySeesCurrentPreamble ==
    [][\A r \in Slots :
        (ReturnsOk(r) /\ FollowsMarkDirty(r)) =>
            /\ agents'[agent'].preamble = preamble'
            /\ preamble' = accepted'
            /\ ~needs_rebuild']_vars

\* C2: a call that started after a mutation had returned holds an agent
\* compiled after that mutation returned, or needs_rebuild is still true
C2_MarkDirtyNotLost ==
    \A r \in Slots :
        (req[r].caller = "task" /\ HoldsAgent(req[r])) =>
            \/ agents[req[r].agent_ptr].compiledAt >= req[r].startSeq
            \/ needs_rebuild

\* C3: the agent a chat or stream_chat call holds has not been released
C3_AgentInUseNotFreed ==
    \A r \in Slots : HoldsAgent(req[r]) => req[r].agent_ptr \notin freed

\* C4: a rebuild that fails leaves the agent pointer and needs_rebuild as
\* they were and releases nothing, and a call that starts while needs_rebuild
\* is true enters the rebuild
C4_FailedRebuildKeepsAgentAndFlag ==
    [][\A r \in Slots :
        /\ (req[r].pc = "build" /\ req'[r].pc = "done") =>
                /\ req'[r].outcome = "rebuild_failed"
                /\ agent' = agent
                /\ freed' = freed
                /\ needs_rebuild' = needs_rebuild
        /\ (Free(r) /\ ~Free(r)' /\ needs_rebuild) =>
                req'[r].pc = "rebuild_store"]_vars

\* a rebuild has failed: the first agent is still current and not released,
\* and needs_rebuild is still set
C4_Witness ==
    \E r \in Slots :
        /\ req[r].pc = "done" /\ req[r].outcome = "rebuild_failed"
        /\ needs_rebuild /\ agent = 1 /\ freed = {}

AtRest == \A r \in Slots : Free(r)

\* C5: once no request of the user is in progress, every history of the user
\* has at most MAX_HISTORY_MESSAGES entries
C5_HistoryAtRestBounded ==
    AtRest => \A h \in 1..Len(histories) : Len(histories[h]) <= MAX_HISTORY_MESSAGES

\* at rest after a synchronous and a streaming request, with the history at
\* its cap
C5_Witness ==
    /\ AtRest
    /\ chat_store # 0
    /\ Len(histories[chat_store]) = MAX_HISTORY_MESSAGES
    /\ \E r, q \in Slots :
        /\ req[r].pc = "done" /\ req[r].caller = "handle_chat"
        /\ req[q].pc = "done" /\ req[q].caller = "handle_stream_chat"

IsSummary(msg) ==
    msg.role = "user" /\ msg.text # <<>> /\ Head(msg.text) = SummaryPrefix

\* in this step request r finishes its work on the history, having appended
\* a turn that made the history longer than COMPRESS_THRESHOLD
AppendedPastThreshold(r) ==
    /\ req'[r].pc = "db_get"
    /\ \/ req[r].caller = "compress_history" /\ req[r].pc \in {"completion", "build"}
       \/ /\ req[r].caller = "handle_chat" /\ req[r].pc = "completion"
          /\ Len(histories[req[r].chat_history]) + 2 > COMPRESS_THRESHOLD

\* C6: the history a successful request leaves after appending a turn that
\* made it longer than COMPRESS_THRESHOLD has at most COMPRESS_THRESHOLD
\* entries and starts with a summary turn, or has exactly COMPRESS_THRESHOLD
\* entries
C6_AppendPastThresholdCompresses ==
    [][\A r \in Slots :
        AppendedPastThreshold(r) =>
            LET left == histories'[req[r].chat_history]
            IN  \/ Len(left) <= COMPRESS_THRESHOLD /\ left # <<>> /\ IsSummary(left[1])
                \/ Len(left) = COMPRESS_THRESHOLD]_vars

\* a meaningless turn as the specification words it: whitespace-only, fewer
\* than 2 characters, or entirely punctuation
MeaninglessText(text) ==
    \/ chars_count(trim(text)) < 2
    \/ \A i \in 1..Len(trim(text)) : is_ascii_punctuation(trim(text)[i])

\* C7: the history a chat or stream_chat request passes to the agent holds
\* no meaningless turn
C7_NoMeaninglessTurnPassedToAgent ==
    \A r \in Slots :
        (req[r].caller \in {"handle_chat", "handle_stream_chat"}) =>
            \A i \in 1..Len(req[r].history_snapshot) :
                ~MeaninglessText(req[r].history_snapshot[i].text)

InHistory(rid) ==
    \E h \in 1..Len(histories) : \E i \in 1..Len(histories[h]) : histories[h][i].rid = rid

InLog(rid) == \E i \in 1..Len(messages) : messages[i].rid = rid

\* the request did not succeed: rebuild failure, completion error, or an
\* upstream error in the middle of the stream
Unsuccessful(rec) ==
    \/ rec.errored
    \/ rec.pc = "done" /\ rec.outcome # "ok"

\* C8: a request that does not succeed appends nothing to the history and
\* writes nothing to the log
C8_UnsuccessfulRequestAppendsNothing ==
    \A r \in Slots :
        Unsuccessful(req[r]) => ~InHistory(req[r].rid) /\ ~InLog(req[r].rid)

\* C9: a stream request whose client has disconnected before the response
\* was complete appends nothing to the history and writes nothing to the log
C9_DisconnectedStreamAppendsNothing ==
    \A r \in Slots :
        (req[r].rid # 0 /\ ~req[r].connected) =>
            ~InHistory(req[r].rid) /\ ~InLog(req[r].rid)

\* position of the user turn of request rid in a sequence of turns, 0 if none
RECURSIVE UserPos(_, _, _)
UserPos(seq, rid, i) ==
    IF i > Len(seq) THEN 0
    ELSE IF seq[i].rid = rid /\ seq[i].role = "user" THEN i
    ELSE UserPos(seq, rid, i + 1)

\* C10: the turns of two requests are in the same order in the history and
\* in the log, and the two messages of a request are adjacent in the log
C10_HistoryAndLogSameOrder ==
    /\ \A h \in 1..Len(histories) : \A a, b \in 1..started :
        LET ha == UserPos(histories[h], a, 1)
            hb == UserPos(histories[h], b, 1)
            la == UserPos(messages, a, 1)
            lb == UserPos(messages, b, 1)
        IN  (ha # 0 /\ hb # 0 /\ la # 0 /\ lb # 0) => ((ha < hb) <=> (la < lb))
    /\ \A j \in 1..Len(messages) :
        messages[j].role = "assistant" =>
            /\ j > 1
            /\ messages[j - 1].rid = messages[j].rid
            /\ messages[j - 1].role = "user"

(* ------------------------- document store claims ---------------------- *)
\* the rows of one upload: the id is base_id or starts with base_id + "-"
OfUpload(d, base_id) == d.id = base_id \/ starts_with(d.id, base_id \o <<"-">>)

\* a DELETE of one chunk of a multi-chunk upload has returned 204
ChunkDeleted ==
    /\ doc.pc = "done" /\ doc.op = "delete" /\ doc.status = 204
    /\ doc.delete_id = base_id_of(doc.id) \o <<"_CHUNKED">>

\* C11: once a DELETE of one chunk of a multi-chunk upload has returned 204,
\* which deletes with the identifier base_id + "_CHUNKED", the store holds
\* exactly the rows it held before without the rows whose id is base_id or
\* starts with base_id + "-": none of those is left and no other row is gone.
C11_ChunkedDeleteRemovesTheUpload ==
    ChunkDeleted =>
        rows = SelectSeq(doc.before, LAMBDA d : ~OfUpload(d, base_id_of(doc.id)))

\* C12: no two rows of the vector store have the same id
C12_RowIdsUnique ==
    \A i, j \in DOMAIN rows : i # j => rows[i].id # rows[j].id

\* the stored chunks as a bag: which rows, and how many of each
Chunks(rs) ==
    [d \in { rs[i] : i \in DOMAIN rs } |-> Cardinality({ i \in DOMAIN rs : rs[i] = d })]

\* a document request returns in this step
DocReturns == doc' # doc /\ doc'.pc = "done" /\ doc'.op \in DocOps \cup {"update", "delete"}

\* C13: when a create, upload, update or delete request returns, with any
\* status, and the stored chunks are not the ones there were when the request
\* was received, needs_rebuild is true
C13_ChangedStoreIsMarkedDirty ==
    [][(DocReturns /\ Chunks(rows') # Chunks(doc'.before)) => needs_rebuild']_vars

(* --------------------------- preamble claims --------------------------- *)
\* C14: whenever no preamble update is in progress, the preamble in memory is
\* the content of the preamble file
C14_PreambleInMemoryIsTheFile ==
    admin.pc = "idle" => preamble = preamble_file

(* -------------------------- conversation claims ------------------------ *)
\* the rows of the log that request rid wrote with the given role
Logged(rid, role) ==
    { j \in DOMAIN messages : messages[j].rid = rid /\ messages[j].role = role }

\* the user message of request rid, found in a history, holds an end word
SaidEndWord(rid) ==
    \E h \in DOMAIN histories : \E i \in DOMAIN histories[h] :
        /\ histories[h][i].rid = rid /\ histories[h][i].role = "user"
        /\ detect_conversation_end_indicators(histories[h][i].text)

\* request rid had logged its reply, the last step of a successful request,
\* when the request of task r was received
ReturnedBefore(rid, r) ==
    \E j \in Logged(rid, "assistant") : j <= req[r].logAtStart

\* C15: once a successful request whose user message holds an end word has
\* logged both messages, they are under one conversation and that conversation
\* is closed; and the request received next, after that request returned,
\* logs its user message to a conversation created after it was received
C15_EndWordClosesConversation ==
    \A a \in 1..started :
        (SaidEndWord(a) /\ Logged(a, "assistant") # {}) =>
            /\ \A j \in Logged(a, "user") \cup Logged(a, "assistant") :
                /\ conversations[messages[j].conversation] = "closed"
                /\ \A k \in Logged(a, "user") :
                      messages[k].conversation = messages[j].conversation
            /\ \A r \in Slots :
                (req[r].rid = a + 1 /\ ReturnedBefore(a, r)) =>
                    \A j \in Logged(a + 1, "user") :
                        messages[j].conversation > req[r].convsAtStart

(* ------------------------------ SSE claims ----------------------------- *)
\* the task of a stream request has sent its last event
SseOver(rec) ==
    \/ rec.caller = "handle_stream_chat"
       /\ rec.pc \in {"db_get", "db_create", "db_user", "db_close", "db_asst", "done"}
    \/ rec.caller = "compress_history"

\* C16: the events of a stream request whose client is still connected are,
\* once the task has sent its last event: the user_id event first if and only
\* if the request carried no user_id, then unnamed events without a line feed
\* in their data, of which the last one and only the last one is [DONE]
C16_SseEventSequence ==
    \A r \in Slots :
        (SseOver(req[r]) /\ req[r].connected) =>
            LET events == req[r].events
                n == Len(events)
            IN  /\ n >= 1
                /\ events[n] = Event("message", <<"[DONE]">>)
                /\ (events[1].event = "user_id") <=> req[r].no_id
                /\ \A i \in 2..n : events[i].event = "message"
                /\ \A i \in 1..(n - 1) : events[i].data # <<"[DONE]">>
                /\ \A i \in 1..n : \A k \in DOMAIN events[i].data :
                      events[i].data[k] # "\n"

(* ------------------------- fragment stream claims ---------------------- *)
\* the upstream delivers an error next
ErrNext == stream_state = "open" /\ upstream # <<>> /\ Head(upstream).kind = "Err"

\* C17: a stream that is open ends (its upstream is finite); the step that
\* takes an error from the upstream yields the one fragment "Error: {e}" and
\* ends the stream; and a stream that has ended yields no further fragment
C17_ErrorFragmentEndsStream ==
    /\ [][ErrNext => /\ yielded' = Append(yielded, <<ErrorPrefix>> \o Head(upstream).text)
                     /\ stream_state' = "ended"]_vars
    /\ [][stream_state = "ended" => (yielded' = yielded \/ yielded' = <<>>)]_vars
    /\ (stream_state = "open") ~> (stream_state = "ended")

\* a stream has ended on an error after a fragment, with items of the
\* upstream left that were never asked for
C17_Witness ==
    /\ stream_state = "ended"
    /\ Len(yielded) >= 2
    /\ yielded[Len(yielded)] = <<ErrorPrefix, "e">>
    /\ upstream # <<>>

(* ---------------------------- rebuild claims --------------------------- *)
\* task r holds the agent for its completion, its call started after the
\* one mutation there has been had returned, and that mutation was a preamble
\* update that returned Ok
FollowsTheOneUpdate(r) ==
    /\ req[r].caller = "task" /\ HoldsAgent(req[r])
    /\ req[r].startSeq = 1 /\ req[r].startQuiet
    /\ marksStarted = 1
    /\ accepted # "p0"

\* the agents built after the first mutation returned
BuiltAfterUpdate == { i \in DOMAIN agents : agents[i].compiledAt >= 1 }

\* C18: after one preamble update and no other mutation, a chat call that
\* started after the update returned makes its completion call on an agent
\* compiled with the new preamble, and the agent has been rebuilt exactly
\* once since the update returned: by the first such call and by no later one
C18_OneRebuildAfterPreambleUpdate ==
    \A r \in Slots :
        FollowsTheOneUpdate(r) =>
            /\ agents[req[r].agent_ptr].preamble = accepted
            /\ Cardinality(BuiltAfterUpdate) = 1

(* ------------------------- store delete claims ------------------------- *)
\* C19: for any id and any store state, a store that was never written
\* included, delete(id) followed by delete(id) returns Ok both times, and the
\* second call leaves the rows of the store as they are
C19_DeleteTwiceSucceeds ==
    /\ [](doc.op = "store_delete" /\ doc.pc = "done" => doc.results = <<TRUE, TRUE>>)
    /\ [][doc.pc = "delete_again" => rows' = rows]_vars

(* ---------------------------- ingest claims ---------------------------- *)
\* the text of a create or upload request is whitespace-only
Blank(rec) == rec.op \in DocOps /\ trim(rec.content) = <<>>

\* the rows the request in hand has stored
StoredChunks == SelectSeq(rows, LAMBDA d : OfUpload(d, doc.base_id))

\* C20: a create or upload whose text is not whitespace-only is not rejected
\* as empty, hands at least one chunk to the store, each non-empty after
\* trimming, and when it returns 200 the store holds at least one chunk of it,
\* each non-empty after trimming; a create or upload of whitespace-only text
\* returns 400 and leaves the rows, the backups and needs_rebuild as they were
C20_IngestStoresChunksOrRejectsBlank ==
    /\ (doc.op \in DocOps /\ doc.pc \in {"add", "added", "done"} /\ ~Blank(doc)) =>
          /\ doc.status # 400
          /\ doc.pc = "add" =>
                /\ Len(doc.documents) >= 1
                /\ \A k \in DOMAIN doc.documents : trim(doc.documents[k].content) # <<>>
          /\ doc.status = 200 =>
                /\ Len(StoredChunks) >= 1
                /\ \A k \in DOMAIN StoredChunks : trim(StoredChunks[k].content) # <<>>
    /\ (doc.pc # "idle" /\ Blank(doc)) =>
          /\ doc.pc = "done" /\ doc.status = 400
          /\ rows = doc.before
          /\ backups = doc.backups_before
          /\ needs_rebuild = doc.flag_before

\* a text cut into several chunks has been stored
C20_Witness ==
    /\ doc.op \in DocOps /\ doc.pc = "done" /\ doc.status = 200
    /\ Len(StoredChunks) >= 2

(* ---------------------------- chunker claims --------------------------- *)
\* chunk_size * 1.1
SizeLimit == (CHUNK_SIZE * 11) \div 10

\* the chunks process_and_save_document holds for the store: chunk_document
\* of the request text
HeldChunks == [k \in DOMAIN doc.documents |-> doc.documents[k].content]

\* C21: every chunk chunk_document returns for a create or upload is not
\* empty and is at most chunk_size * 1.1 bytes long
C21_ChunkLengthBounded ==
    (doc.op \in DocOps /\ doc.pc = "add") =>
        \A k \in DOMAIN HeldChunks :
            0 < len(HeldChunks[k]) /\ len(HeldChunks[k]) <= SizeLimit

(* ----------------------------- table claims ---------------------------- *)
\* the lines of a text that are not blank, each without the white space
\* around it
TextLines(text) ==
    LET kept == SelectSeq(lines(text), LAMBDA l : trim(l) # <<>>)
    IN  [k \in DOMAIN kept |-> trim(kept[k])]

\* the text starts with a heading line
Titled(text) == TextLines(text) # <<>> /\ Head(TextLines(text)[1]) = "#"

\* the lines after the heading, if there is one
RowsOf(text) == IF Titled(text) THEN Tail(TextLines(text)) ELSE TextLines(text)

\* the text is one Markdown table, or a heading and one table under it
IsTableText(text) ==
    /\ Len(lines(text)) = Len(TextLines(text))
    /\ Len(RowsOf(text)) >= 2
    /\ \A k \in DOMAIN RowsOf(text) : HasPipe(RowsOf(text)[k])

\* the lines of a chunk without the heading in front
ChunkRows(c, text) ==
    IF Titled(text) /\ TextLines(c) # <<>> /\ TextLines(c)[1] = TextLines(text)[1]
    THEN Tail(TextLines(c)) ELSE TextLines(c)

\* the chunk holds a row of the table that is not one of its header lines
HasBodyRow(c, text) ==
    \E k \in DOMAIN ChunkRows(c, text) :
        /\ \E j \in 3..Len(RowsOf(text)) : ChunkRows(c, text)[k] = RowsOf(text)[j]
        /\ ~(k <= 2 /\ ChunkRows(c, text)[k] = RowsOf(text)[k])

\* the chunk is made of whole lines of the text
WholeLines(c, text) ==
    \A k \in DOMAIN TextLines(c) :
        \E j \in DOMAIN TextLines(text) : TextLines(c)[k] = TextLines(text)[j]

\* the chunk starts with the heading, when there is one, and the two header
\* lines of the table
HasHeader(c, text) ==
    /\ Len(ChunkRows(c, text)) >= 2
    /\ SubSeq(ChunkRows(c, text), 1, 2) = SubSeq(RowsOf(text), 1, 2)
    /\ Titled(text) => ChunkRows(c, text) # TextLines(c)

\* C22: for a text that is one Markdown table, with or without a heading
\* above it: a table that fits in chunk_size comes out whole in one chunk; a
\* larger table is cut only between rows, and every chunk that holds body
\* rows of it also holds its two header lines and the heading
C22_TableChunksKeepHeader ==
    (doc.op \in DocOps /\ doc.pc = "add" /\ IsTableText(doc.content)) =>
        IF len(join(RowsOf(doc.content), <<"\n">>)) <= CHUNK_SIZE
        THEN /\ Len(HeldChunks) = 1
             /\ ChunkRows(HeldChunks[1], doc.content) = RowsOf(doc.content)
        ELSE \A k \in DOMAIN HeldChunks :
                /\ WholeLines(HeldChunks[k], doc.content)
                /\ HasBodyRow(HeldChunks[k], doc.content)
                      => HasHeader(HeldChunks[k], doc.content)

(* --------------------------- chunk id claims --------------------------- *)
\* the chunks of the text of the request in hand
RequestChunks == chunk_document(doc.content, CHUNK_SIZE)

\* the rows the store has got since the request was received
NewRows == SubSeq(rows, Len(doc.before) + 1, Len(rows))

\* C23: when a create or upload whose text gives N chunks has returned 200,
\* the store has got N rows, row k holding chunk k; with N = 1 the row has
\* id = base_id and source = filename; with N > 1 row k, counted from 0, has
\* id = base_id + "-" + k and source = filename + " (Part " + (k+1) + "/" + N + ")"
C23_ChunkRowsNamedByIndex ==
    (doc.op \in DocOps /\ doc.pc = "done" /\ doc.status = 200) =>
        /\ Len(NewRows) = Len(RequestChunks)
        /\ \A k \in 0..(Len(RequestChunks) - 1) :
              /\ NewRows[k + 1].content = RequestChunks[k + 1]
              /\ IF Len(RequestChunks) = 1
                 THEN /\ NewRows[k + 1].id = doc.base_id
                      /\ NewRows[k + 1].source = <<FileName>>
                 ELSE /\ NewRows[k + 1].id = doc.base_id \o <<"-", to_string(k)>>
                      /\ NewRows[k + 1].source =
                            <<FileName, " (Part ", to_string(k + 1), "/",
                              to_string(Len(RequestChunks)), ")">>

\* a text cut into three chunks has been stored under base_id-0 .. base_id-2
C23_Witness ==
    /\ doc.op \in DocOps /\ doc.pc = "done" /\ doc.status = 200
    /\ Len(NewRows) = 3
    /\ NewRows[3].id = doc.base_id \o <<"-", "2">>

(* ------------------------------ list claims ---------------------------- *)
\* the whole store sorted by updated_at descending
NewestFirst == sort_by_updated_at_desc(DOMAIN rows)

\* C24: a list request returns the rows at positions offset .. offset+limit-1
\* of the whole store sorted by updated_at descending, limit being within
\* 1..1000, and the total number of rows
C24_ListIsPageOfNewestFirst ==
    (doc.op = "list" /\ doc.pc = "done") =>
        /\ doc.limit \in 1..1000
        /\ doc.total = Len(rows)
        /\ doc.results =
              SubSeq(NewestFirst, doc.offset + 1,
                     IF doc.offset + doc.limit < Len(rows) THEN doc.offset + doc.limit
                     ELSE Len(rows))

(* ------------------------------ lock claims ---------------------------- *)
\* the guards task t holds
Held(t) == { l \in DOMAIN locks : t \in locks[l].readers \/ locks[l].writer = t }

\* task t is at a suspension point
Suspended(t) == Running(t) /\ Cur(t).i \in {"await", "use"}

OldActive(c) ==
    c \in DOMAIN conversations /\ conversations[c] = "active" /\ now - updated_at[c] > ONE_DAY

\* C26: a round of the background task changes the status only of
\* conversations that are active and were last updated more than 24 hours
\* ago, and sets it to closed; it changes no other conversation, no escalated
\* one and none updated within the last 24 hours; and every conversation that
\* is active and more than 24 hours old eventually stops being so
C26_BackgroundClosesOnlyOldActive ==
    /\ [][(\E ok \in BOOLEAN : close_old_conversations(ok)) =>
            /\ updated_at' = updated_at
            /\ \A c \in DOMAIN conversations :
                  conversations'[c] # conversations[c] =>
                      OldActive(c) /\ conversations'[c] = "closed"]_vars
    /\ \A c \in 1..MaxConvs : OldActive(c) ~> ~OldActive(c)

\* an old active conversation has been closed while an old escalated one and a
\* fresh active one are left as they were
C26_Witness ==
    /\ Len(conversations) = 2
    /\ conversations[1] = "closed" /\ now - updated_at[1] > ONE_DAY
    /\ conversations[2] = "escalated" /\ now - updated_at[2] > ONE_DAY

(* --------------------------- file type claims -------------------------- *)
\* the name ends with the extension, whatever the case of its letters
HasSuffix(name, ext) ==
    /\ Len(name) >= Len(ext) + 1
    /\ name[Len(name) - Len(ext)] = "."
    /\ \A k \in DOMAIN ext :
          name[Len(name) - Len(ext) + k] \in {ext[k], to_uppercase(<<ext[k]>>)[1]}

\* C27: the type of a file is decided by the suffix of its name without
\* regard to case: .pdf gives Pdf, .docx Docx, .xlsx Xlsx, .txt, .json and
\* .csv give Txt, .md gives Md, every other name gives None, and then parse
\* fails with the unsupported-file-type error
C27_TypeFromSuffix ==
    (doc.op = "parse" /\ doc.pc = "done") =>
        /\ HasSuffix(doc.content, <<"p", "d", "f">>) => doc.results = << "Pdf" >>
        /\ HasSuffix(doc.content, <<"d", "o", "c", "x">>) => doc.results = << "Docx" >>
        /\ HasSuffix(doc.content, <<"x", "l", "s", "x">>) => doc.results = << "Xlsx" >>
        /\ (\/ HasSuffix(doc.content, <<"t", "x", "t">>)
            \/ HasSuffix(doc.content, <<"j", "s", "o", "n">>)
            \/ HasSuffix(doc.content, <<"c", "s", "v">>)) => doc.results = << "Txt" >>
        /\ HasSuffix(doc.content, <<"m", "d">>) => doc.results = << "Md" >>
        /\ (\A ext \in { <<"p", "d", "f">>, <<"d", "o", "c", "x">>, <<"x", "l", "s", "x">>,
                         <<"t", "x", "t">>, <<"j", "s", "o", "n">>, <<"c", "s", "v">>,
                         <<"m", "d">> } : ~HasSuffix(doc.content, ext))
              => /\ doc.results = <<>>
                 /\ doc.error = <<"Unsupported file type: ">> \o doc.content

\* test.PDF has been recognised as a PDF file
C27_Witness ==
    /\ doc.op = "parse" /\ doc.pc = "done"
    /\ doc.content = <<"t", "e", "s", "t", ".", "P", "D", "F">>
    /\ doc.results = << "Pdf" >>

(* ----------------------------- retrieval claims ------------------------ *)
\* the agents compiled by build_agent: all but the one built at start
Rebuilt == DOMAIN agents \ {1}

\* C28: every agent compiled by a rebuild retrieves with a top_k of at
\* least 1 that is the configured value (3 by default), whatever the number
\* of chunks the vector store holds
C28_TopKIsConfiguredValue ==
    \A i \in Rebuilt :
        /\ agents[i].top_k >= 1
        /\ agents[i].top_k = 3

(* ------------------------------ table claims --------------------------- *)
\* the pieces of a line between the pipes that no backslash precedes
RECURSIVE SplitCells(_, _, _, _)
SplitCells(line, prev, piece, acc) ==
    IF line = <<>> THEN Append(acc, piece)
    ELSE IF Head(line) = "|" /\ prev # "\\"
         THEN SplitCells(Tail(line), Head(line), <<>>, Append(acc, piece))
         ELSE SplitCells(Tail(line), Head(line), Append(piece, Head(line)), acc)

\* the text a Markdown cell shows: without the space on either side and
\* without the backslash in front of a pipe
Shown(piece) ==
    LET inner == SubSeq(piece, 2, Len(piece) - 1)
        keep == { k \in DOMAIN inner :
                    ~(inner[k] = "\\" /\ k < Len(inner) /\ inner[k + 1] = "|") }
        F[k \in 0..Len(inner)] ==
            IF k = 0 THEN <<>>
            ELSE IF k \in keep THEN Append(F[k - 1], inner[k]) ELSE F[k - 1]
    IN  F[Len(inner)]

\* the cells of a Markdown table line
CellsOf(line) ==
    LET pieces == SplitCells(line, " ", <<>>, <<>>)
    IN  [k \in 1..(Len(pieces) - 2) |-> Shown(pieces[k + 1])]

\* row of the Word table as the Markdown line must show it: padded to n
\* cells, line feeds within a cell shown as spaces
Padded(row, n) ==
    [k \in 1..n |-> IF k <= Len(row) THEN replace(row[k], "\n", <<" ">>) ELSE <<>>]

\* the widest row of the table parsed
Widest == CHOOSE n \in 0..MaxCols :
             /\ \A i \in DOMAIN doc.table : Len(doc.table[i]) <= n
             /\ \E i \in DOMAIN doc.table : Len(doc.table[i]) = n

\* the lines table_to_markdown returned: those of the result without the
\* line feed that joins the table to the empty line after it
MarkdownLines == lines(SubSeq(doc.results, 1, Len(doc.results) - 1))

\* C29: a non-empty table of R rows with at most C cells per row is
\* rendered as R+1 lines: the first row, one line of --- cells, then the
\* other rows in order, every line with exactly C cells, short rows padded
\* with empty cells and every pipe inside a cell escaped
C29_TableToMarkdownKeepsShape ==
    (doc.op = "parse_docx" /\ doc.pc = "done" /\ doc.table # <<>>) =>
        LET out == MarkdownLines
            R == Len(doc.table)
        IN  /\ Len(out) = R + 1
            /\ CellsOf(out[1]) = Padded(doc.table[1], Widest)
            /\ CellsOf(out[2]) = [k \in 1..Widest |-> <<"-", "-", "-">>]
            /\ \A i \in 2..R : CellsOf(out[i + 1]) = Padded(doc.table[i], Widest)

\* a table of three rows, one of them short and one with pipes in a cell,
\* has been rendered
C29_Witness ==
    /\ doc.op = "parse_docx" /\ doc.pc = "done"
    /\ doc.table = << << <<"a">> >>, << <<"b", "|", "|">>, <<>> >>, << <<"a">> >> >>
    /\ Len(MarkdownLines) = 4

(* ------------------------------- flag claims --------------------------- *)
\* request r takes the last step of rebuild_with_sync, after its swap
FinishesRebuild(r) ==
    /\ req[r].pc = "clear"
    /\ req'[r].pc = AfterDeref(req[r])
    /\ agent \in Rebuilt
    /\ freed # {}

\* C30: needs_rebuild goes from true to false only in the last step of a
\* rebuild_with_sync that has swapped a newly built agent into the agent
\* pointer; no document route, preamble route or failed rebuild clears it
C30_FlagClearedOnlyByCompletedRebuild ==
    [][(needs_rebuild /\ ~needs_rebuild') => \E r \in Slots : FinishesRebuild(r)]_vars

\* a rebuild has cleared the flag that a mutation had set, and its request
\* holds the agent it swapped in
C30_Witness ==
    /\ ~needs_rebuild
    /\ marksDone >= 1
    /\ agent \in Rebuilt
    /\ \E r \in Slots : req[r].pc \in {"completion", "streaming"} /\ req[r].agent_ptr = agent

(* ---------------------------- overlap claims --------------------------- *)
\* the requests whose turns history h holds
TurnsOf(h) == { h[i].rid : i \in DOMAIN h }

\* history h of the next state is the current one without some of its
\* oldest entries, possibly with the turns of a new request after them
HeadTruncated(h) ==
    \E n \in 0..Len(histories[h]) :
        /\ Len(histories'[h]) >= Len(histories[h]) - n
        /\ SubSeq(histories'[h], 1, Len(histories[h]) - n) = skip(histories[h], n)
        /\ \A i \in (Len(histories[h]) - n + 1)..Len(histories'[h]) :
              histories'[h][i].rid \notin TurnsOf(histories[h])

\* history h is replaced by a summary computed from a history that held the
\* turn of request k
SummarisedWith(h, k) ==
    \E r \in Slots :
        /\ req[r].caller = "compress_history" /\ req[r].chat_history = h
        /\ k \in TurnsOf(req[r].history_to_compress)
        /\ Len(histories'[h]) = 1
        /\ histories'[h][1].text[1] = SummaryPrefix

\* C31: a turn appended to the in-memory history by a completed request is
\* removed only by a truncation at the head or by a summary computed from a
\* history that contained it, also when stream requests of the user overlap
C31_TurnRemovedOnlyByTruncationOrSummary ==
    [][\A h \in DOMAIN histories :
         \A k \in TurnsOf(histories[h]) \ TurnsOf(histories'[h]) :
            HeadTruncated(h) \/ SummarisedWith(h, k)]_vars

\* C32: while the cache entry of the user has not expired, every request of
\* the user reads and appends to the history object the cache holds: no
\* request works on a separate history that the cache has dropped
C32_RequestsShareTheCachedHistory ==
    \A r \in Slots : req[r].chat_history # 0 => req[r].chat_history = chat_store

(* -------------------------- conversation claims ------------------------ *)
\* C33: at any time the user has at most one conversation with status
\* active, also when two requests of the user call
\* get_or_create_active_conversation while the user has none
C33_AtMostOneActiveConversation == Cardinality(ActiveConversations) <= 1

(* ------------------------- document update claims ---------------------- *)
\* C34: when PUT /api/documents/{id} has returned an error status, the store
\* still holds the document of that id with the content it had before: a
\* failure of the insert after the delete does not lose the document
C34_FailedUpdateKeepsDocument ==
    (doc.op = "update" /\ doc.pc = "done" /\ doc.status >= 400) =>
        \A i \in DOMAIN doc.before :
            doc.before[i].id = doc.id => \E j \in DOMAIN rows : rows[j] = doc.before[i]

(* ----------------------------- rebuild claims -------------------------- *)
\* the requests that are inside rebuild_with_sync
Rebuilding == { r \in Slots : req[r].pc \in {"rebuild_store", "build", "swap", "clear"} }

\* C35: at most one execution of rebuild_with_sync is in progress at any
\* time: two requests that both read needs_rebuild = true do not both build
\* an agent and swap the agent pointer
C35_OneRebuildAtATime == Cardinality(Rebuilding) <= 1

(* ------------------------- document delete claims ---------------------- *)
\* the id is the id of a document stored as one chunk: a generated id
\* without a chunk index
SingleChunkId(id) == \E k \in DOMAIN NanoIds : NanoIds[k] = id

\* C36: once DELETE /api/documents/{id} on a document stored as a single
\* chunk has returned 204, the store holds the rows it held before without
\* the row of that id, whatever the file name of the document is
C36_SingleDeleteRemovesTheRow ==
    (doc.op = "delete" /\ doc.pc = "done" /\ doc.status = 204 /\ SingleChunkId(doc.id)) =>
        rows = SelectSeq(doc.before, LAMBDA d : d.id # doc.id)

(* ------------------------------- user claims --------------------------- *)
\* C37: after any sequence of create_user, update_user and delete_user
\* calls, concurrent ones and role changes included, at least one user with
\* role admin exists
C37_AnAdminExists == admin_count >= 1

(* ------------------------------ backup claims -------------------------- *)
\* C38: delete_backup(doc_id) removes only backup files that save_backup
\* wrote for the same doc_id: the backups of another document whose id is
\* doc_id followed by "_" and more are left in place
C38_DeleteBackupRemovesOwnFilesOnly ==
    (doc.op = "delete_backup" /\ doc.pc = "done") =>
        \A f \in doc.backups_before \ backup_dir : f.doc_id = doc.id

(* ------------------------------ chunker claims ------------------------- *)
\* a line inside a table: collect_table walks back from it to the table's top
WalksBack(ls, i) == is_table_start(ls, i) /\ TableTop(ls, i) < i

\* a title deferred to the table that follows it
Deferred(ls, i) ==
    /\ trim(ls[i]) # <<>> /\ ~is_table_start(ls, i)
    /\ Head(trim(ls[i])) = "#" /\ has_table_after(ls, i)

\* C39: for every text and every chunk_size >= 1, a round of chunk_document's
\* loop at any line leaves the line index strictly larger than it found it,
\* also at a line from which collect_table walks back and at a title that is
\* deferred to the following table; the running call's index stays within one
\* past the last line, so the loop ends
C39_EachRoundAdvancesTheLine ==
    doc.op = "chunk_document" =>
        /\ doc.chunk_size >= 1
        /\ doc.i <= Len(lines(doc.content)) + 1
        /\ \A i \in 1..Len(lines(doc.content)) :
             /\ NextLine(lines(doc.content), i) > i
             /\ NextLine(lines(doc.content), i) <= Len(lines(doc.content)) + 1

C39_Witness ==
    /\ doc.op = "chunk_document" /\ doc.pc = "done"
    /\ doc.i = Len(lines(doc.content)) + 1
    /\ \E i \in 1..Len(lines(doc.content)) : WalksBack(lines(doc.content), i)
    /\ \E i \in 1..Len(lines(doc.content)) : Deferred(lines(doc.content), i)

============================================================================
